---- MODULE Spec2Model ----
(***************************************************************************)
(* The tunnel stage machine of the SOCKS5 client side of shadowsocksr-     *)
(* native (src/client/client.c): the sixteen-stage session FSM driven by   *)
(* read / write / connect / resolve / TLS completion events.               *)
(*                                                                         *)
(* A tunnel is a record; every C handler is an operator from a tunnel      *)
(* record (and the outcome of the collaborators it calls) to the tunnel    *)
(* record after the handler has returned.  The collaborators that live     *)
(* outside client.c (socket shim, SOCKS5 parser, cipher, TLS transport)    *)
(* are modelled from their documented contract.                            *)
(***************************************************************************)
EXTENDS Integers, Sequences, FiniteSets, TLC

VARIABLES
    tunnels,          \* [Tunnels -> tunnel record]: struct tunnel_ctx + struct client_ctx
    ndebug,           \* the build: TRUE when compiled with NDEBUG (release)
    over_tls_enable,  \* config->over_tls_enable
    remote_host,      \* config->remote_host: a literal address or a host name
    ev                \* the completion event handled by the last step

vars == <<tunnels, ndebug, over_tls_enable, remote_host, ev>>

(***************************************************************************)
(* Bounds of the model.                                                    *)
(***************************************************************************)
\* the largest number of bytes one read on the incoming socket delivers
MaxChunk == 3

Tunnels == {"t1"}
Sockets == {"incoming", "outgoing"}

Min(a, b) == IF a < b THEN a ELSE b

(***************************************************************************)
(* The SOCKS5 parser (s5.h): an incremental parser over a (data, size)     *)
(* cursor.  s5_ok means "need more".                                       *)
(***************************************************************************)
s5_init ==
    [state |-> "s5_version", arg0 |-> 0, arg1 |-> 0, methods |-> {},
     cmd |-> "none", atyp |-> "none", daddr |-> <<>>, dport |-> 0]

\* one byte fed to the parser: <<parser', status>>
s5_byte(p, b) ==
    CASE p.state = "s5_version" ->
           IF b # 5 THEN <<p, "s5_bad_version">>
           ELSE <<[p EXCEPT !.state = "s5_nmethods"], "s5_ok">>
      [] p.state = "s5_nmethods" ->
           <<[p EXCEPT !.state = "s5_methods", !.arg0 = 0, !.arg1 = b], "s5_ok">>
      [] p.state = "s5_methods" ->
           LET q == IF p.arg0 < p.arg1
                    THEN [p EXCEPT !.arg0 = @ + 1,
                                   !.methods = @ \cup
                                       (CASE b = 0 -> {"s5_auth_none"}
                                          [] b = 1 -> {"s5_auth_gssapi"}
                                          [] b = 2 -> {"s5_auth_passwd"}
                                          [] OTHER -> {})]
                    ELSE p
           IN  IF q.arg0 = q.arg1 THEN <<q, "s5_auth_select">> ELSE <<q, "s5_ok">>
      [] p.state = "s5_req_version" ->
           IF b # 5 THEN <<p, "s5_bad_version">>
           ELSE <<[p EXCEPT !.state = "s5_req_cmd"], "s5_ok">>
      [] p.state = "s5_req_cmd" ->
           CASE b = 1 -> <<[p EXCEPT !.state = "s5_req_reserved", !.cmd = "s5_cmd_tcp_connect"], "s5_ok">>
             [] b = 2 -> <<[p EXCEPT !.state = "s5_req_reserved", !.cmd = "s5_cmd_tcp_bind"], "s5_ok">>
             [] b = 3 -> <<[p EXCEPT !.state = "s5_req_reserved", !.cmd = "s5_cmd_udp_assoc"], "s5_ok">>
             [] OTHER -> <<p, "s5_bad_cmd">>
      [] p.state = "s5_req_reserved" ->
           <<[p EXCEPT !.state = "s5_req_atyp"], "s5_ok">>
      [] p.state = "s5_req_atyp" ->
           CASE b = 1 -> <<[p EXCEPT !.state = "s5_req_daddr", !.atyp = "s5_atyp_ipv4",
                                     !.arg0 = 0, !.arg1 = 4, !.daddr = <<>>], "s5_ok">>
             [] b = 3 -> <<[p EXCEPT !.state = "s5_req_atyp_host", !.atyp = "s5_atyp_host",
                                     !.arg0 = 0, !.arg1 = 0, !.daddr = <<>>], "s5_ok">>
             [] b = 4 -> <<[p EXCEPT !.state = "s5_req_daddr", !.atyp = "s5_atyp_ipv6",
                                     !.arg0 = 0, !.arg1 = 16, !.daddr = <<>>], "s5_ok">>
             [] OTHER -> <<p, "s5_bad_atyp">>
      [] p.state = "s5_req_atyp_host" ->
           <<[p EXCEPT !.state = "s5_req_daddr", !.arg1 = b], "s5_ok">>
      [] p.state = "s5_req_daddr" ->
           LET q == IF p.arg0 < p.arg1
                    THEN [p EXCEPT !.arg0 = @ + 1, !.daddr = Append(@, b)]
                    ELSE p
           IN  IF q.arg0 = q.arg1
               THEN <<[q EXCEPT !.state = "s5_req_dport0"], "s5_ok">>
               ELSE <<q, "s5_ok">>
      [] p.state = "s5_req_dport0" ->
           <<[p EXCEPT !.state = "s5_req_dport1", !.dport = b * 256], "s5_ok">>
      [] p.state = "s5_req_dport1" ->
           <<[p EXCEPT !.state = "s5_dead", !.dport = @ + b], "s5_exec_cmd">>
      [] OTHER -> <<p, "s5_ok">>

\* s5_parse(cx, &data, &size): consumes bytes until the input is exhausted
\* (s5_ok) or a record is complete or in error; the unconsumed bytes stay
\* in the cursor.
RECURSIVE s5_parse(_, _)
s5_parse(p, data) ==
    IF data = <<>> THEN [parser |-> p, err |-> "s5_ok", data |-> <<>>]
    ELSE LET r == s5_byte(p, Head(data))
         IN  IF r[2] = "s5_ok" THEN s5_parse(r[1], Tail(data))
             ELSE [parser |-> r[1], err |-> r[2], data |-> Tail(data)]

s5_auth_methods(p) == p.methods

s5_select_auth(p, method) ==
    CASE method = "s5_auth_none"   -> [p EXCEPT !.state = "s5_req_version"]
      [] method = "s5_auth_passwd" -> [p EXCEPT !.state = "s5_auth_pw_version"]
      [] OTHER -> p

(***************************************************************************)
(* Data written to a socket.  A write is a record: its kind and its bytes. *)
(***************************************************************************)
Plain(bytes)     == [kind |-> "plain", bytes |-> bytes]
\* tunnel_cipher_client_encrypt applied to a buffer holding `bytes`
Encrypted(bytes) == [kind |-> "encrypted", bytes |-> bytes]
\* the feedback blob produced by tunnel_cipher_client_decrypt
Feedback         == [kind |-> "feedback", bytes |-> <<>>]
\* the payload of a streamed write; its content is not recorded
Stream           == [kind |-> "stream", bytes |-> <<>>]
\* the reply synthesised by build_udp_assoc_package
build_udp_assoc_package == [kind |-> "udp_assoc_package", bytes |-> <<>>]

(***************************************************************************)
(* Socket addresses (union sockaddr_universal).                            *)
(***************************************************************************)
NoAddr       == [sa_family |-> "AF_UNSPEC", bytes |-> <<>>]
Inet(b)      == [sa_family |-> "AF_INET", bytes |-> b]
Inet6(b)     == [sa_family |-> "AF_INET6", bytes |-> b]

V4Public     == Inet(<<10, 0, 0, 1>>)
V4Loopback   == Inet(<<127, 0, 0, 1>>)
V6Public     == Inet6(<<32, 1, 13, 184, 0, 0, 0, 0, 0, 0, 0, 0, 0, 0, 0, 1>>)
V6Loopback   == Inet6(<<0, 0, 0, 0, 0, 0, 0, 0, 0, 0, 0, 0, 0, 0, 0, 1>>)
V6Mapped     == Inet6(<<0, 0, 0, 0, 0, 0, 0, 0, 0, 0, 255, 255, 127, 0, 0, 1>>)

\* the addresses a DNS lookup of config->remote_host may yield
ResolvedAddrs == {V4Public, V4Loopback, V6Public, V6Loopback, V6Mapped}

\* config->remote_host: a literal address, or a name that needs a lookup
RemoteHosts ==
    { [literal |-> TRUE,  addr |-> V4Public],
      [literal |-> TRUE,  addr |-> V4Loopback],
      [literal |-> FALSE, addr |-> NoAddr] }

\* ntohl of the i-th (0-based) 32-bit word of an address in network order
ntohl(bytes, i) ==
    bytes[4 * i + 1] * 16777216 + bytes[4 * i + 2] * 65536
        + bytes[4 * i + 3] * 256 + bytes[4 * i + 4]

can_auth_none == TRUE

can_auth_passwd == FALSE

can_access(addr) ==
    IF ~ndebug THEN TRUE
    ELSE IF addr.sa_family = "AF_INET"
         THEN (ntohl(addr.bytes, 0) \div 16777216) # 127
    ELSE IF addr.sa_family = "AF_INET6"
         THEN LET a == ntohl(addr.bytes, 0)
                  b == ntohl(addr.bytes, 1)
                  c == ntohl(addr.bytes, 2)
                  d == ntohl(addr.bytes, 3)
              IN  IF a = 0 /\ b = 0 /\ c = 0 /\ d = 1 THEN FALSE
                  ELSE IF a = 0 /\ b = 0 /\ c = 65535 /\ (d \div 16777216) = 127 THEN FALSE
                  ELSE TRUE
    ELSE FALSE

(***************************************************************************)
(* initial_package_create: atyp || address || port (big-endian).           *)
(***************************************************************************)
atyp_byte(atyp) ==
    CASE atyp = "s5_atyp_ipv4" -> 1
      [] atyp = "s5_atyp_host" -> 3
      [] atyp = "s5_atyp_ipv6" -> 4
      [] OTHER -> 0

\* parser->daddr as the C array: the parsed bytes, then zero bytes
daddr_at(daddr, i) == IF i <= Len(daddr) THEN daddr[i] ELSE 0

\* strlen((char *)parser->daddr): the bytes before the first zero byte
strlen(daddr) ==
    IF \E i \in 1..Len(daddr) : daddr[i] = 0
    THEN (CHOOSE i \in 1..Len(daddr) :
              daddr[i] = 0 /\ \A j \in 1..(i - 1) : daddr[j] # 0) - 1
    ELSE Len(daddr)

htons(port) == <<(port \div 256) % 256, port % 256>>

initial_package_create(parser) ==
    LET body ==
          CASE parser.atyp = "s5_atyp_ipv4" -> [i \in 1..4 |-> daddr_at(parser.daddr, i)]
            [] parser.atyp = "s5_atyp_ipv6" -> [i \in 1..16 |-> daddr_at(parser.daddr, i)]
            [] parser.atyp = "s5_atyp_host" ->
                 LET len == strlen(parser.daddr) % 256
                 IN  <<len>> \o [i \in 1..len |-> daddr_at(parser.daddr, i)]
            [] OTHER -> <<>>
    IN  <<atyp_byte(parser.atyp)>> \o body \o htons(parser.dport)

(***************************************************************************)
(* The outcome of the collaborators a handler calls: the cipher's answers  *)
(* and the immediate result of socket_connect.                             *)
(***************************************************************************)
Oracles ==
    [encrypt_ok : BOOLEAN, decrypt_ok : BOOLEAN, feedback : BOOLEAN,
     need_feedback : BOOLEAN, connect_ok : BOOLEAN]

\* the collaborators a handler entered in a given stage can call
Consulted(stage) ==
    CASE stage \in {"tunnel_stage_s5_request", "tunnel_stage_resolve_ssr_server_host_done"}
           -> {"connect_ok"}
      [] stage \in {"tunnel_stage_connecting_ssr_server", "tunnel_stage_tls_connecting"}
           -> {"encrypt_ok"}
      [] stage = "tunnel_stage_ssr_auth_sent" -> {"need_feedback"}
      [] stage \in {"tunnel_stage_ssr_waiting_feedback", "tunnel_stage_tls_first_package"}
           -> {"decrypt_ok", "feedback"}
      [] stage \in {"tunnel_stage_streaming", "tunnel_stage_tls_streaming"}
           -> {"encrypt_ok", "decrypt_ok", "feedback"}
      [] OTHER -> {}

\* the collaborators the handlers of an event on socket s can call
ConsultedOn(kind, s) ==
    CASE kind = "read" /\ s = "incoming" -> {"connect_ok", "encrypt_ok"}
      [] kind = "read" /\ s = "outgoing" -> {"decrypt_ok", "feedback"}
      [] kind = "write"                  -> {"need_feedback"}
      [] kind = "getaddrinfo"            -> {"connect_ok"}
      [] kind \in {"connect", "tls_established"} -> {"encrypt_ok"}
      [] kind = "tls_data"               -> {"decrypt_ok", "feedback"}
      [] OTHER -> {}

\* the outcomes that differ for an event on a tunnel in stage `stage`: a
\* collaborator that is not called answers TRUE, and only a successful
\* decrypt yields a feedback blob
OraclesAt(stage, kind, s) ==
    LET asked == Consulted(stage) \cap ConsultedOn(kind, s)
    IN  { o \in Oracles :
            /\ \A f \in DOMAIN o : f \notin asked => o[f]
            /\ ("feedback" \in asked /\ o.feedback) => o.decrypt_ok }

(***************************************************************************)
(* A tunnel before accept: the client_ctx is calloc'ed by init_done_cb.    *)
(* Fields below "history" record what has happened; the code has no such   *)
(* fields and never reads them.                                            *)
(***************************************************************************)
NoTunnel ==
    [born |-> FALSE, terminated |-> FALSE, dead |-> FALSE, aborted |-> FALSE,
     registered |-> FALSE,
     stage |-> "tunnel_stage_handshake",
     rdstate |-> [s \in Sockets |-> "stop"],
     wrstate |-> [s \in Sockets |-> "stop"],
     result  |-> [s \in Sockets |-> 0],
     buf     |-> [s \in Sockets |-> <<>>],
     parser |-> s5_init,
     cipher |-> "null",
     init_pkg |-> <<>>, init_pkg_state |-> "null",
     getaddrinfoing |-> FALSE, connecting |-> FALSE,
     addr |-> NoAddr,
     tls |-> "none",
     \* the client: the bytes it sends during the handshake, and how many
     \* of them the reads have delivered
     greeting |-> <<>>, request |-> <<>>, sent |-> 0,
     \* history
     nrd |-> [s \in Sockets |-> 0],      \* reads outstanding
     nwr |-> [s \in Sockets |-> 0],      \* writes outstanding
     wsrc |-> [s \in Sockets |-> "none"], \* the source buffer of the write in flight
     wire_in |-> <<>>,                   \* writes to the client, in order
     wire_out |-> <<>>,                  \* writes to the upstream socket, in order
     tls_out |-> <<>>,                   \* first package handed to the TLS transport
     tls_stream_sent |-> FALSE,          \* streamed data handed to the TLS transport
     failed |-> {},                      \* the kinds of ASSERT / UNREACHABLE that failed
     hazards |-> {},                     \* uses of an absent object or of a negative size
     bad_arm |-> FALSE,                  \* a read/write armed on a socket not in stop
     late_arm |-> FALSE,                 \* I/O armed after shutdown was initiated
     access |-> "unchecked",             \* the answer of can_access, once asked
     resolve_started |-> FALSE,          \* socket_getaddrinfo was called
     connect_started |-> FALSE,          \* socket_connect was called
     connect_unchecked |-> FALSE,        \* ... or the TLS launch, with no access check passed
     tls_launched |-> FALSE,             \* tls_client_launch was called
     tls_shutdown |-> FALSE,             \* tls_client_shutdown was called
     cipher_new |-> 0, cipher_free |-> 0, pkg_new |-> 0, pkg_free |-> 0,
     dying |-> 0,                        \* calls of tunnel_dying
     term_ev |-> "none",                 \* the event during which shutdown began
     shutdowns |-> 0]                    \* calls of tunnel_shutdown

(***************************************************************************)
(* ASSERT / UNREACHABLE: the failure is recorded; what the build does with *)
(* it (abort, or nothing under NDEBUG) is decided where the event settles. *)
(***************************************************************************)
ASSERT(c, cond, tag) == IF cond THEN c ELSE [c EXCEPT !.failed = @ \cup {tag}]

UNREACHABLE(c) == [c EXCEPT !.failed = @ \cup {"unreachable"}]

AllStop(c) ==
    /\ c.rdstate["incoming"] = "stop" /\ c.wrstate["incoming"] = "stop"
    /\ c.rdstate["outgoing"] = "stop" /\ c.wrstate["outgoing"] = "stop"

IncomingStop(c) ==
    c.rdstate["incoming"] = "stop" /\ c.wrstate["incoming"] = "stop"

(***************************************************************************)
(* The socket shim (tunnel.h): one read and one write in flight per        *)
(* socket; completion is reported through the tunnel's callbacks.          *)
(***************************************************************************)
ShuttingDown(c) == c.terminated \/ c.tls_shutdown

socket_read(c, s) ==
    [c EXCEPT !.rdstate[s] = "busy",
              !.nrd[s] = Min(@ + 1, 2),
              !.bad_arm = @ \/ (c.rdstate[s] # "stop"),
              !.late_arm = @ \/ ShuttingDown(c)]

socket_write(c, s, data) ==
    [c EXCEPT !.wrstate[s] = "busy",
              !.wsrc[s] = "held",
              !.nwr[s] = Min(@ + 1, 2),
              !.bad_arm = @ \/ (c.wrstate[s] # "stop"),
              !.late_arm = @ \/ ShuttingDown(c),
              !.wire_in = IF s = "incoming" /\ data # Stream THEN Append(@, data) ELSE @,
              !.wire_out = IF s = "outgoing" /\ data # Stream THEN Append(@, data) ELSE @]

\* free / buffer_release of the buffer that was handed to the write on s
release_written(c, s) == [c EXCEPT !.wsrc[s] = "freed"]

socket_getaddrinfo(c, s) ==
    [c EXCEPT !.getaddrinfoing = TRUE, !.resolve_started = TRUE,
              !.late_arm = @ \/ ShuttingDown(c)]

\* socket_connect returns non-zero when the connect cannot even be started
socket_connect(c, ok) ==
    [c EXCEPT !.connecting = ok, !.connect_started = TRUE,
              !.connect_unchecked = @ \/ (c.access # "allowed"),
              !.late_arm = @ \/ ShuttingDown(c)]

\* tunnel_shutdown: idempotent; closes both sockets (their states become
\* dead) and cancels whatever is in flight; teardown follows
tunnel_shutdown(c) ==
    IF c.terminated THEN [c EXCEPT !.shutdowns = Min(@ + 1, 2)]
    ELSE [c EXCEPT !.terminated = TRUE,
                   !.shutdowns = Min(@ + 1, 2),
                   !.rdstate = [s \in Sockets |-> "dead"],
                   !.wrstate = [s \in Sockets |-> "dead"],
                   !.nrd = [s \in Sockets |-> 0],
                   !.nwr = [s \in Sockets |-> 0],
                   !.getaddrinfoing = FALSE, !.connecting = FALSE,
                   !.tls = IF @ = "none" THEN "none" ELSE "closed"]

(***************************************************************************)
(* The TLS client transport (tls_cli.h).                                   *)
(***************************************************************************)
tls_client_launch(c) ==
    [c EXCEPT !.tls = "connecting", !.tls_launched = TRUE,
              !.connect_unchecked = @ \/ (c.access # "allowed"),
              !.late_arm = @ \/ ShuttingDown(c)]

tls_client_shutdown(c) ==
    [c EXCEPT !.tls = IF @ \in {"connecting", "established"} THEN "shutting" ELSE @,
              !.tls_shutdown = TRUE]

tunnel_tls_send_data(c, data) ==
    [c EXCEPT !.tls_out = IF data # Stream THEN Append(@, data) ELSE @,
              !.tls_stream_sent = @ \/ (data = Stream),
              !.late_arm = @ \/ ShuttingDown(c)]

(***************************************************************************)
(* The cipher (ssr_executive.h), by interface.                             *)
(***************************************************************************)
tunnel_cipher_create(c) ==
    [c EXCEPT !.cipher = "live", !.cipher_new = Min(@ + 1, 2)]

\* a handler dereferences ctx->cipher / ctx->init_pkg
Hazard(c, cond, tag) == IF cond THEN [c EXCEPT !.hazards = @ \cup {tag}] ELSE c
UseCipher(c)  == Hazard(c, c.cipher # "live", "null_cipher")
UseInitPkg(c) == Hazard(c, c.init_pkg_state # "live", "null_init_pkg")

(***************************************************************************)
(* The handlers of client.c.  Each takes the tunnel as the completion      *)
(* callback found it and yields the tunnel as the handler leaves it.       *)
(***************************************************************************)
init_done_cb(c) ==
    [c EXCEPT !.born = TRUE, !.registered = TRUE, !.parser = s5_init,
              !.cipher = "null", !.stage = "tunnel_stage_handshake"]

(***************************************************************************)
(* Deviant handlers.  Each differs from the handler of client.c it is      *)
(* named after in one decision; a property that is about that decision     *)
(* must tell the two apart.                                                *)
(***************************************************************************)
\* selects none only when it is the one method offered
do_handshake_none_alone(c) ==
    LET c1 == ASSERT(c, IncomingStop(c), "rdwr")
        r  == s5_parse(c1.parser, c1.buf["incoming"])
        c2 == [c1 EXCEPT !.parser = r.parser]
        methods == s5_auth_methods(r.parser)
    IN  IF c1.result["incoming"] < 0 THEN tunnel_shutdown(c1)
        ELSE IF r.err = "s5_ok"
             THEN [socket_read(c2, "incoming") EXCEPT !.stage = "tunnel_stage_handshake"]
        ELSE IF r.data # <<>> THEN tunnel_shutdown(c2)
        ELSE IF r.err # "s5_auth_select" THEN tunnel_shutdown(c2)
        ELSE IF methods = {"s5_auth_none"}
             THEN [socket_write([c2 EXCEPT !.parser = s5_select_auth(@, "s5_auth_none")],
                                "incoming", Plain(<<5, 0>>))
                     EXCEPT !.stage = "tunnel_stage_handshake_replied"]
        ELSE [socket_write(c2, "incoming", Plain(<<5, 255>>))
                EXCEPT !.stage = "tunnel_stage_kill"]

\* refuses the methods with 05 FF but goes on to wait for a request
do_handshake_refuse_and_go_on(c) ==
    LET c1 == ASSERT(c, IncomingStop(c), "rdwr")
        r  == s5_parse(c1.parser, c1.buf["incoming"])
        c2 == [c1 EXCEPT !.parser = r.parser]
        methods == s5_auth_methods(r.parser)
    IN  IF c1.result["incoming"] < 0 THEN tunnel_shutdown(c1)
        ELSE IF r.err = "s5_ok"
             THEN [socket_read(c2, "incoming") EXCEPT !.stage = "tunnel_stage_handshake"]
        ELSE IF r.data # <<>> THEN tunnel_shutdown(c2)
        ELSE IF r.err # "s5_auth_select" THEN tunnel_shutdown(c2)
        ELSE IF "s5_auth_none" \in methods /\ can_auth_none
             THEN [socket_write([c2 EXCEPT !.parser = s5_select_auth(@, "s5_auth_none")],
                                "incoming", Plain(<<5, 0>>))
                     EXCEPT !.stage = "tunnel_stage_handshake_replied"]
        ELSE [socket_write(c2, "incoming", Plain(<<5, 255>>))
                EXCEPT !.stage = "tunnel_stage_handshake_replied"]

\* takes up the username/password negotiation when it is offered
do_handshake_passwd(c) ==
    LET c1 == ASSERT(c, IncomingStop(c), "rdwr")
        r  == s5_parse(c1.parser, c1.buf["incoming"])
        c2 == [c1 EXCEPT !.parser = r.parser]
        methods == s5_auth_methods(r.parser)
    IN  IF c1.result["incoming"] < 0 THEN tunnel_shutdown(c1)
        ELSE IF r.err = "s5_ok"
             THEN [socket_read(c2, "incoming") EXCEPT !.stage = "tunnel_stage_handshake"]
        ELSE IF r.data # <<>> THEN tunnel_shutdown(c2)
        ELSE IF r.err # "s5_auth_select" THEN tunnel_shutdown(c2)
        ELSE IF "s5_auth_none" \in methods /\ can_auth_none
             THEN [socket_write([c2 EXCEPT !.parser = s5_select_auth(@, "s5_auth_none")],
                                "incoming", Plain(<<5, 0>>))
                     EXCEPT !.stage = "tunnel_stage_handshake_replied"]
        ELSE IF "s5_auth_passwd" \in methods
             THEN [socket_write([c2 EXCEPT !.parser = s5_select_auth(@, "s5_auth_passwd")],
                                "incoming", Plain(<<5, 2>>))
                     EXCEPT !.stage = "tunnel_stage_handshake_auth"]
        ELSE [socket_write(c2, "incoming", Plain(<<5, 255>>))
                EXCEPT !.stage = "tunnel_stage_kill"]

\* does not look at what the parser left unconsumed
do_handshake_lenient(c) ==
    LET c1 == ASSERT(c, IncomingStop(c), "rdwr")
        r  == s5_parse(c1.parser, c1.buf["incoming"])
        c2 == [c1 EXCEPT !.parser = r.parser]
        methods == s5_auth_methods(r.parser)
    IN  IF c1.result["incoming"] < 0 THEN tunnel_shutdown(c1)
        ELSE IF r.err = "s5_ok"
             THEN [socket_read(c2, "incoming") EXCEPT !.stage = "tunnel_stage_handshake"]
        ELSE IF r.err # "s5_auth_select" THEN tunnel_shutdown(c2)
        ELSE IF "s5_auth_none" \in methods /\ can_auth_none
             THEN [socket_write([c2 EXCEPT !.parser = s5_select_auth(@, "s5_auth_none")],
                                "incoming", Plain(<<5, 0>>))
                     EXCEPT !.stage = "tunnel_stage_handshake_replied"]
        ELSE IF "s5_auth_passwd" \in methods /\ can_auth_passwd
             THEN tunnel_shutdown(c2)
        ELSE [socket_write(c2, "incoming", Plain(<<5, 255>>))
                EXCEPT !.stage = "tunnel_stage_kill"]

do_handshake(c) ==
    LET c1 == ASSERT(c, IncomingStop(c), "rdwr")
        r  == s5_parse(c1.parser, c1.buf["incoming"])
        c2 == [c1 EXCEPT !.parser = r.parser]
        methods == s5_auth_methods(r.parser)
    IN  IF c1.result["incoming"] < 0 THEN tunnel_shutdown(c1)
        ELSE IF r.err = "s5_ok"
             THEN [socket_read(c2, "incoming") EXCEPT !.stage = "tunnel_stage_handshake"]
        ELSE IF r.data # <<>> THEN tunnel_shutdown(c2)
        ELSE IF r.err # "s5_auth_select" THEN tunnel_shutdown(c2)
        ELSE IF "s5_auth_none" \in methods /\ can_auth_none
             THEN [socket_write([c2 EXCEPT !.parser = s5_select_auth(@, "s5_auth_none")],
                                "incoming", Plain(<<5, 0>>))
                     EXCEPT !.stage = "tunnel_stage_handshake_replied"]
        ELSE IF "s5_auth_passwd" \in methods /\ can_auth_passwd
             THEN tunnel_shutdown(c2)
        ELSE [socket_write(c2, "incoming", Plain(<<5, 255>>))
                EXCEPT !.stage = "tunnel_stage_kill"]

do_handshake_auth(c) == tunnel_shutdown(UNREACHABLE(c))

\* waits for a second greeting
do_wait_s5_request_again(c) ==
    LET c1 == ASSERT(c, IncomingStop(c), "rdwr")
    IN  IF c1.result["incoming"] < 0 THEN tunnel_shutdown(c1)
        ELSE [socket_read(c1, "incoming") EXCEPT !.stage = "tunnel_stage_handshake"]

do_wait_s5_request(c) ==
    LET c1 == ASSERT(c, IncomingStop(c), "rdwr")
    IN  IF c1.result["incoming"] < 0 THEN tunnel_shutdown(c1)
        ELSE [socket_read(c1, "incoming") EXCEPT !.stage = "tunnel_stage_s5_request"]

do_socks5_reply_success(c) ==
    LET c1 == UseInitPkg(c)
        c2 == ASSERT(c1, AllStop(c1), "rdwr")
    IN  [release_written(socket_write(c2, "incoming", Plain(<<5, 0, 0>> \o c2.init_pkg)),
                         "incoming")
           EXCEPT !.stage = "tunnel_stage_auth_complition_done"]

do_connect_ssr_server(c, o) ==
    LET c1 == ASSERT(c, AllStop(c), "rdwr")
        ok == can_access(c1.addr)
        c2 == [c1 EXCEPT !.access = IF ok THEN "allowed" ELSE "denied"]
    IN  IF ~ok
        THEN [socket_write(c2, "incoming", Plain(<<5, 2, 0, 1, 0, 0, 0, 0, 0, 0>>))
                EXCEPT !.stage = "tunnel_stage_kill"]
        ELSE IF ~o.connect_ok THEN tunnel_shutdown(socket_connect(c2, FALSE))
        ELSE [socket_connect(c2, TRUE) EXCEPT !.stage = "tunnel_stage_connecting_ssr_server"]

\* ignores the outcome of the resolution and connects
do_resolve_ssr_server_host_aftercare_unchecked(c, o) ==
    LET c1 == ASSERT(c, AllStop(c), "rdwr")
    IN  do_connect_ssr_server(c1, o)

do_resolve_ssr_server_host_aftercare(c, o) ==
    LET c1 == ASSERT(c, AllStop(c), "rdwr")
    IN  IF c1.result["outgoing"] < 0
        THEN [socket_write(c1, "incoming", Plain(<<5, 4, 0, 1, 0, 0, 0, 0, 0, 0>>))
                EXCEPT !.stage = "tunnel_stage_kill"]
        ELSE IF c1.addr.sa_family \in {"AF_INET", "AF_INET6"}
             THEN do_connect_ssr_server(c1, o)
             ELSE do_connect_ssr_server(UNREACHABLE(c1), o)

\* do_parse_s5_request with the bind and udp-assoc branches as decisions:
\* whether bind is refused, and whether the udp-assoc reply's completion is
\* awaited before the shutdown
parse_s5_request_variant(c, o, refuse_bind, await_udp_write) ==
    LET c1 == ASSERT(c, AllStop(c), "rdwr")
        r  == s5_parse(c1.parser, c1.buf["incoming"])
        c2 == [c1 EXCEPT !.parser = r.parser]
    IN  IF c1.result["incoming"] < 0 THEN tunnel_shutdown(c1)
        ELSE IF r.err = "s5_ok"
             THEN [socket_read(c2, "incoming") EXCEPT !.stage = "tunnel_stage_s5_request"]
        ELSE IF r.data # <<>> THEN tunnel_shutdown(c2)
        ELSE IF r.err # "s5_exec_cmd" THEN tunnel_shutdown(c2)
        ELSE IF r.parser.cmd = "s5_cmd_tcp_bind" /\ refuse_bind THEN tunnel_shutdown(c2)
        ELSE IF r.parser.cmd = "s5_cmd_udp_assoc"
             THEN LET w == [socket_write(c2, "incoming", build_udp_assoc_package)
                              EXCEPT !.stage = "tunnel_stage_s5_udp_accoc"]
                  IN  IF await_udp_write THEN w ELSE tunnel_shutdown(w)
        ELSE LET c3 == ASSERT(c2, r.parser.cmd = "s5_cmd_tcp_connect", "cmd")
                 c4 == tunnel_cipher_create(
                         [c3 EXCEPT !.init_pkg = initial_package_create(r.parser),
                                    !.init_pkg_state = "live",
                                    !.pkg_new = Min(@ + 1, 2)])
             IN  IF over_tls_enable
                 THEN tls_client_launch([c4 EXCEPT !.stage = "tunnel_stage_tls_connecting"])
                 ELSE IF ~remote_host.literal
                      THEN [socket_getaddrinfo(c4, "outgoing")
                              EXCEPT !.stage = "tunnel_stage_resolve_ssr_server_host_done"]
                      ELSE do_connect_ssr_server([c4 EXCEPT !.addr = remote_host.addr], o)

\* serves bind as if it were connect
do_parse_s5_request_bind_served(c, o) == parse_s5_request_variant(c, o, FALSE, TRUE)

\* shuts down as soon as the udp-assoc reply is handed to the socket
do_parse_s5_request_udp_hasty(c, o) == parse_s5_request_variant(c, o, TRUE, FALSE)

do_parse_s5_request(c, o) ==
    LET c1 == ASSERT(c, AllStop(c), "rdwr")
        r  == s5_parse(c1.parser, c1.buf["incoming"])
        c2 == [c1 EXCEPT !.parser = r.parser]
    IN  IF c1.result["incoming"] < 0 THEN tunnel_shutdown(c1)
        ELSE IF r.err = "s5_ok"
             THEN [socket_read(c2, "incoming") EXCEPT !.stage = "tunnel_stage_s5_request"]
        ELSE IF r.data # <<>> THEN tunnel_shutdown(c2)
        ELSE IF r.err # "s5_exec_cmd" THEN tunnel_shutdown(c2)
        ELSE IF r.parser.cmd = "s5_cmd_tcp_bind" THEN tunnel_shutdown(c2)
        ELSE IF r.parser.cmd = "s5_cmd_udp_assoc"
             THEN [socket_write(c2, "incoming", build_udp_assoc_package)
                     EXCEPT !.stage = "tunnel_stage_s5_udp_accoc"]
        ELSE LET c3 == ASSERT(c2, r.parser.cmd = "s5_cmd_tcp_connect", "cmd")
                 c4 == tunnel_cipher_create(
                         [c3 EXCEPT !.init_pkg = initial_package_create(r.parser),
                                    !.init_pkg_state = "live",
                                    !.pkg_new = Min(@ + 1, 2)])
             IN  IF over_tls_enable
                 THEN tls_client_launch([c4 EXCEPT !.stage = "tunnel_stage_tls_connecting"])
                 ELSE IF ~remote_host.literal
                      THEN [socket_getaddrinfo(c4, "outgoing")
                              EXCEPT !.stage = "tunnel_stage_resolve_ssr_server_host_done"]
                      ELSE do_connect_ssr_server([c4 EXCEPT !.addr = remote_host.addr], o)

\* gives up silently when the connect has failed
do_connect_ssr_server_done_silent(c, o) ==
    LET c1 == ASSERT(c, AllStop(c), "rdwr")
    IN  IF c1.result["outgoing"] = 0
        THEN LET c2 == UseCipher(UseInitPkg(c1))
             IN  IF ~o.encrypt_ok THEN tunnel_shutdown(c2)
                 ELSE [socket_write(c2, "outgoing", Encrypted(c2.init_pkg))
                         EXCEPT !.stage = "tunnel_stage_ssr_auth_sent"]
        ELSE tunnel_shutdown(c1)

\* releases init_pkg itself, not its clone, once the package is written
do_connect_ssr_server_done_release(c, o) ==
    LET c1 == ASSERT(c, AllStop(c), "rdwr")
    IN  IF c1.result["outgoing"] = 0
        THEN LET c2 == UseCipher(UseInitPkg(c1))
             IN  IF ~o.encrypt_ok THEN tunnel_shutdown(c2)
                 ELSE [socket_write(c2, "outgoing", Encrypted(c2.init_pkg))
                         EXCEPT !.stage = "tunnel_stage_ssr_auth_sent",
                                !.init_pkg_state = "released"]
        ELSE [socket_write(c1, "incoming", Plain(<<5, 5, 0, 1, 0, 0, 0, 0, 0, 0>>))
                EXCEPT !.stage = "tunnel_stage_kill"]

do_connect_ssr_server_done(c, o) ==
    LET c1 == ASSERT(c, AllStop(c), "rdwr")
    IN  IF c1.result["outgoing"] = 0
        THEN LET c2 == UseCipher(UseInitPkg(c1))
             IN  IF ~o.encrypt_ok THEN tunnel_shutdown(c2)
                 ELSE [release_written(socket_write(c2, "outgoing", Encrypted(c2.init_pkg)),
                                       "outgoing")
                         EXCEPT !.stage = "tunnel_stage_ssr_auth_sent"]
        ELSE [socket_write(c1, "incoming", Plain(<<5, 5, 0, 1, 0, 0, 0, 0, 0, 0>>))
                EXCEPT !.stage = "tunnel_stage_kill"]

\* goes on whatever became of the write of the package
do_ssr_auth_sent_unchecked(c, o) ==
    LET c1 == ASSERT(c, AllStop(c), "rdwr")
        c2 == UseCipher(c1)
    IN  IF o.need_feedback
        THEN [socket_read(c2, "outgoing") EXCEPT !.stage = "tunnel_stage_ssr_waiting_feedback"]
        ELSE do_socks5_reply_success(c2)

do_ssr_auth_sent(c, o) ==
    LET c1 == ASSERT(c, AllStop(c), "rdwr")
    IN  IF c1.result["outgoing"] < 0 THEN tunnel_shutdown(c1)
        ELSE LET c2 == UseCipher(c1)
             IN  IF o.need_feedback
                 THEN [socket_read(c2, "outgoing") EXCEPT !.stage = "tunnel_stage_ssr_waiting_feedback"]
                 ELSE do_socks5_reply_success(c2)

\* yields the tunnel and the handler's return value `done`
\* reports that nothing was sent although the receipt was written
do_ssr_receipt_for_feedback_eager(c, o) ==
    LET c1 == ASSERT(c, AllStop(c), "rdwr")
    IN  IF c1.result["outgoing"] < 0
        THEN [c |-> tunnel_shutdown(c1), done |-> FALSE]
        ELSE LET c2 == ASSERT(UseCipher(c1), o.decrypt_ok, "cipher")
             IN  IF o.decrypt_ok /\ o.feedback
                 THEN [c |-> [socket_write(c2, "outgoing", Feedback)
                                EXCEPT !.stage = "tunnel_stage_ssr_receipt_of_feedback_sent"],
                       done |-> FALSE]
                 ELSE [c |-> c2, done |-> FALSE]

do_ssr_receipt_for_feedback(c, o) ==
    LET c1 == ASSERT(c, AllStop(c), "rdwr")
    IN  IF c1.result["outgoing"] < 0
        THEN [c |-> tunnel_shutdown(c1), done |-> FALSE]
        ELSE LET c2 == ASSERT(UseCipher(c1), o.decrypt_ok, "cipher")
             IN  IF o.decrypt_ok /\ o.feedback
                 THEN [c |-> [release_written(socket_write(c2, "outgoing", Feedback), "outgoing")
                                EXCEPT !.stage = "tunnel_stage_ssr_receipt_of_feedback_sent"],
                       done |-> TRUE]
                 ELSE [c |-> c2, done |-> FALSE]

do_launch_streaming(c) ==
    LET c1 == ASSERT(c, AllStop(c), "rdwr")
    IN  IF c1.result["incoming"] < 0 THEN tunnel_shutdown(c1)
        ELSE [socket_read(socket_read(c1, "incoming"), "outgoing")
                EXCEPT !.stage = "tunnel_stage_streaming"]

\* yields the tunnel and whether a buffer was extracted (result != NULL)
tunnel_extract_data(c, s, o) ==
    LET c1 == Hazard(UseCipher(c), c.result[s] < 0, "negative_size")
    IN  IF s = "incoming"
        THEN [c |-> c1, ok |-> o.encrypt_ok]
        ELSE [c |-> ASSERT(c1, ~(o.decrypt_ok /\ o.feedback), "feedback"),
              ok |-> o.decrypt_ok]

\* forgets to release init_pkg
tunnel_dying_leaky(c) ==
    [c EXCEPT !.registered = FALSE,
              !.cipher = IF @ = "live" THEN "released" ELSE @,
              !.cipher_free = IF c.cipher = "live" THEN Min(@ + 1, 2) ELSE @,
              !.dying = Min(@ + 1, 2),
              !.dead = TRUE]

\* forgets to remove the tunnel from the registry
tunnel_dying_listed(c) ==
    [c EXCEPT !.cipher = IF @ = "live" THEN "released" ELSE @,
              !.cipher_free = IF c.cipher = "live" THEN Min(@ + 1, 2) ELSE @,
              !.init_pkg_state = IF @ = "live" THEN "released" ELSE @,
              !.pkg_free = IF c.init_pkg_state = "live" THEN Min(@ + 1, 2) ELSE @,
              !.dying = Min(@ + 1, 2),
              !.dead = TRUE]

tunnel_dying(c) ==
    LET c1 == Hazard(c, c.init_pkg_state # "live", "release_null_init_pkg")
    IN  [c1 EXCEPT !.registered = FALSE,
                   !.cipher = IF @ = "live" THEN "released" ELSE @,
                   !.cipher_free = IF c.cipher = "live" THEN Min(@ + 1, 2) ELSE @,
                   !.init_pkg_state = IF @ = "live" THEN "released" ELSE @,
                   !.pkg_free = IF c.init_pkg_state = "live" THEN Min(@ + 1, 2) ELSE @,
                   !.dying = Min(@ + 1, 2),
                   !.dead = TRUE]

\* launches the streaming of the raw path
tunnel_tls_do_launch_streaming_both(c) ==
    LET c1 == ASSERT(c, AllStop(c), "rdwr")
    IN  IF c1.result["incoming"] < 0 THEN tls_client_shutdown(c1)
        ELSE [socket_read(socket_read(c1, "incoming"), "outgoing")
                EXCEPT !.stage = "tunnel_stage_streaming"]

tunnel_tls_do_launch_streaming(c) ==
    LET c1 == ASSERT(c, AllStop(c), "rdwr")
    IN  IF c1.result["incoming"] < 0 THEN tls_client_shutdown(c1)
        ELSE [socket_read(c1, "incoming") EXCEPT !.stage = "tunnel_stage_tls_streaming"]

tunnel_tls_client_incoming_streaming(c, s, o) ==
    LET c1 == ASSERT(c, s = "incoming", "tls_socket")
        c2 == ASSERT(c1, \/ (c1.wrstate[s] = "done" /\ c1.rdstate[s] # "done")
                         \/ (c1.wrstate[s] # "done" /\ c1.rdstate[s] = "done"), "rdwr")
    IN  IF c2.wrstate[s] = "done" THEN [c2 EXCEPT !.wrstate[s] = "stop"]
        ELSE IF c2.rdstate[s] = "done"
             THEN LET c3 == [c2 EXCEPT !.rdstate[s] = "stop"]
                      x  == tunnel_extract_data(c3, s, o)
                      c4 == IF x.ok THEN tunnel_tls_send_data(x.c, Stream)
                            ELSE tls_client_shutdown(x.c)
                  IN  socket_read(c4, s)
        ELSE ASSERT(c2, FALSE, "rdwr")

tunnel_tls_on_connection_established(c, o) ==
    LET c1 == ASSERT(c, AllStop(c), "rdwr")
        c2 == UseCipher(UseInitPkg(c1))
    IN  IF ~o.encrypt_ok THEN tls_client_shutdown(c2)
        ELSE tunnel_tls_send_data([c2 EXCEPT !.stage = "tunnel_stage_tls_first_package"],
                                  Encrypted(c2.init_pkg))

tunnel_tls_on_data_received(c, o) ==
    IF c.stage = "tunnel_stage_tls_first_package"
    THEN LET c1 == UseCipher(c)
         IN  IF ~o.decrypt_ok THEN tls_client_shutdown(c1)
             ELSE do_socks5_reply_success(ASSERT(c1, ~o.feedback, "tls_feedback"))
    ELSE ASSERT(c, FALSE, "tls_stage")

tunnel_tls_on_shutting_down(c) == tunnel_shutdown(c)

(***************************************************************************)
(* tunnel_traditional_streaming (tunnel.h): on a read completion the data  *)
(* is transformed by tunnel_extract_data and written to the opposite       *)
(* socket; the read is re-armed once that write has completed.             *)
(***************************************************************************)
Opposite(s) == IF s = "incoming" THEN "outgoing" ELSE "incoming"

tunnel_traditional_streaming(c, s, o) ==
    IF c.result[s] < 0 THEN tunnel_shutdown(c)
    ELSE IF c.wrstate[s] = "done"
         THEN socket_read([c EXCEPT !.wrstate[s] = "stop"], Opposite(s))
    ELSE IF c.rdstate[s] = "done"
         THEN LET x == tunnel_extract_data([c EXCEPT !.rdstate[s] = "stop"], s, o)
              IN  IF x.ok THEN socket_write(x.c, Opposite(s), Stream)
                  ELSE tunnel_shutdown(x.c)
    ELSE c

(***************************************************************************)
(* do_next: the core state machine, entered on every completion event.     *)
(***************************************************************************)
Latch(c, dir, s, cond) ==
    LET c1 == ASSERT(c, cond, "rdwr")
    IN  IF dir = "rd" THEN [c1 EXCEPT !.rdstate[s] = "stop"]
        ELSE [c1 EXCEPT !.wrstate[s] = "stop"]

do_next(c, s, o) ==
    CASE c.stage = "tunnel_stage_handshake" ->
           do_handshake(Latch(c, "rd", "incoming", c.rdstate["incoming"] = "done"))
      [] c.stage = "tunnel_stage_handshake_auth" ->
           do_handshake_auth(c)
      [] c.stage = "tunnel_stage_handshake_replied" ->
           do_wait_s5_request(Latch(c, "wr", "incoming", c.wrstate["incoming"] = "done"))
      [] c.stage = "tunnel_stage_s5_request" ->
           do_parse_s5_request(Latch(c, "rd", "incoming", c.rdstate["incoming"] = "done"), o)
      [] c.stage = "tunnel_stage_s5_udp_accoc" ->
           tunnel_shutdown(Latch(c, "wr", "incoming", c.wrstate["incoming"] = "done"))
      [] c.stage = "tunnel_stage_resolve_ssr_server_host_done" ->
           do_resolve_ssr_server_host_aftercare(c, o)
      [] c.stage = "tunnel_stage_connecting_ssr_server" ->
           do_connect_ssr_server_done(c, o)
      [] c.stage = "tunnel_stage_ssr_auth_sent" ->
           do_ssr_auth_sent(Latch(c, "wr", "outgoing", c.wrstate["outgoing"] = "done"), o)
      [] c.stage = "tunnel_stage_ssr_waiting_feedback" ->
           LET x == do_ssr_receipt_for_feedback(
                        Latch(c, "rd", "outgoing", c.rdstate["outgoing"] = "done"), o)
           IN  IF x.done = FALSE THEN do_socks5_reply_success(x.c) ELSE x.c
      [] c.stage = "tunnel_stage_ssr_receipt_of_feedback_sent" ->
           do_socks5_reply_success(Latch(c, "wr", "outgoing", c.wrstate["outgoing"] = "done"))
      [] c.stage = "tunnel_stage_auth_complition_done" ->
           LET c1 == Latch(c, "wr", "incoming", c.wrstate["incoming"] = "done")
           IN  IF over_tls_enable THEN tunnel_tls_do_launch_streaming(c1)
               ELSE do_launch_streaming(c1)
      [] c.stage = "tunnel_stage_tls_streaming" ->
           tunnel_tls_client_incoming_streaming(c, s, o)
      [] c.stage = "tunnel_stage_streaming" ->
           tunnel_traditional_streaming(c, s, o)
      [] c.stage = "tunnel_stage_kill" ->
           tunnel_shutdown(c)
      [] OTHER -> UNREACHABLE(c)

tunnel_outgoing_connected_done(c, s, o) == do_next(c, s, o)
tunnel_read_done(c, s, o)               == do_next(c, s, o)
tunnel_getaddrinfo_done(c, s, o)        == do_next(c, s, o)
tunnel_write_done(c, s, o)              == do_next(c, s, o)

(***************************************************************************)
(* Completion callbacks of the socket shim: they record the outcome on the *)
(* socket and enter the tunnel's callback.                                 *)
(***************************************************************************)
socket_read_done_cb(c, s, nread, data, o) ==
    tunnel_read_done([c EXCEPT !.rdstate[s] = "done", !.nrd[s] = @ - 1,
                               !.result[s] = nread, !.buf[s] = data], s, o)

socket_write_done_cb(c, s, status, o) ==
    tunnel_write_done([c EXCEPT !.wrstate[s] = "done", !.nwr[s] = @ - 1,
                                !.wsrc[s] = "none",
                                !.result[s] = status], s, o)

socket_getaddrinfo_done_cb(c, status, addr, o) ==
    tunnel_getaddrinfo_done(
        [c EXCEPT !.getaddrinfoing = FALSE, !.result["outgoing"] = status,
                  !.addr = IF status = 0 THEN addr ELSE @], "outgoing", o)

socket_connect_done_cb(c, status, o) ==
    tunnel_outgoing_connected_done(
        [c EXCEPT !.connecting = FALSE, !.result["outgoing"] = status], "outgoing", o)

\* tunnel_initialize: the tunnel is constructed on accept and the first read
\* is armed on the client socket
tunnel_initialize(c) == socket_read(init_done_cb(c), "incoming")

(***************************************************************************)
(* The clients of the model: a greeting, then a request.                   *)
(***************************************************************************)
Greetings ==
    { <<5, 1, 0>>,          \* none
      <<5, 1, 2>>,          \* passwd only
      <<5, 2, 2, 0>>,       \* passwd and none
      <<5, 2, 1, 2>>,       \* gssapi and passwd
      <<4, 1, 0>> }         \* wrong version

Requests ==
    { <<5, 1, 0, 1, 127, 0, 0, 1, 31, 144>>,        \* CONNECT 127.0.0.1:8080
      <<5, 1, 0, 3, 2, 104, 105, 0, 80>>,           \* CONNECT "hi":80
      <<5, 1, 0, 4, 32, 1, 13, 184, 0, 0, 0, 0, 0, 0, 0, 0, 0, 0, 0, 1, 1, 187>>,
                                                    \* CONNECT [2001:db8::1]:443
      <<5, 2, 0, 1, 1, 2, 3, 4, 0, 80>>,            \* BIND
      <<5, 3, 0, 1, 0, 0, 0, 0, 0, 0>>,             \* UDP ASSOCIATE
      <<5, 9, 0>> }                                 \* unknown command

Script(c) == c.greeting \o c.request

\* an event: its kind, the tunnel and socket it is for, its result, and what
\* the collaborators answered to the handler
Event(type, t, s, result, o) ==
    [type |-> type, tunnel |-> t, socket |-> s, result |-> result, o |-> o]

NoOracle ==
    [encrypt_ok |-> TRUE, decrypt_ok |-> TRUE, feedback |-> TRUE,
     need_feedback |-> TRUE, connect_ok |-> TRUE]

NoEvent == Event("none", "none", "none", 0, NoOracle)

\* a failed ASSERT aborts a debug build, UNREACHABLE aborts every build; the
\* process is gone and the tunnel is left as the event found it
Aborts(r) == (r.failed # {} /\ ~ndebug) \/ "unreachable" \in r.failed

Settle(c, r, type) ==
    IF Aborts(r) THEN [c EXCEPT !.failed = r.failed, !.aborted = TRUE]
    ELSE [r EXCEPT !.term_ev = IF ~c.terminated /\ r.terminated THEN type ELSE @,
                   \* the receive buffer is reused: what the handler has
                   \* consumed is never read again
                   !.buf = [s \in Sockets |-> <<>>]]

Running == \A t \in DOMAIN tunnels : ~tunnels[t].aborted

Live(t) == Running /\ tunnels[t].born /\ ~tunnels[t].terminated

Deliver(t, r, e) ==
    /\ tunnels' = [tunnels EXCEPT ![t] = Settle(tunnels[t], r, e.type)]
    /\ ev' = e
    /\ UNCHANGED <<ndebug, over_tls_enable, remote_host>>

(***************************************************************************)
(* The events.                                                             *)
(***************************************************************************)
Accept(t) ==
    /\ Running /\ ~tunnels[t].born
    /\ \E g \in Greetings, q \in Requests :
         Deliver(t, tunnel_initialize([tunnels[t] EXCEPT !.greeting = g, !.request = q]),
                 Event("accept", t, "incoming", 0, NoOracle))

\* a read on the client socket completes with the next n bytes of the
\* client's script, or with application data once the script is sent
IncomingRead(t) ==
    /\ Live(t) /\ tunnels[t].rdstate["incoming"] = "busy"
    /\ LET c == tunnels[t]
           left == Len(Script(c)) - c.sent
       IN  \E n \in 1..MaxChunk, o \in OraclesAt(tunnels[t].stage, "read", "incoming") :
             /\ n <= (IF left = 0 THEN 1 ELSE left)
             /\ LET data == IF left = 0 THEN <<>>
                            ELSE SubSeq(Script(c), c.sent + 1, c.sent + n)
                    c1 == [c EXCEPT !.sent = IF left = 0 THEN @ ELSE @ + n]
                IN  Deliver(t, socket_read_done_cb(c1, "incoming", n, data, o),
                            Event("read_done", t, "incoming", n, o))

\* a read on the upstream socket completes with data
OutgoingRead(t) ==
    /\ Live(t) /\ tunnels[t].rdstate["outgoing"] = "busy"
    /\ \E o \in OraclesAt(tunnels[t].stage, "read", "outgoing") :
         Deliver(t, socket_read_done_cb(tunnels[t], "outgoing", 1, <<>>, o),
                 Event("read_done", t, "outgoing", 1, o))

\* a read completes with an error (end of file, reset)
ReadError(t, s) ==
    /\ Live(t) /\ tunnels[t].rdstate[s] = "busy"
    /\ \E o \in OraclesAt(tunnels[t].stage, "read", s) :
         Deliver(t, socket_read_done_cb(tunnels[t], s, -1, <<>>, o),
                 Event("read_done", t, s, -1, o))

WriteDone(t, s) ==
    /\ Live(t) /\ tunnels[t].wrstate[s] = "busy"
    /\ \E status \in {0, -1}, o \in OraclesAt(tunnels[t].stage, "write", s) :
         Deliver(t, socket_write_done_cb(tunnels[t], s, status, o),
                 Event("write_done", t, s, status, o))

GetaddrinfoDone(t) ==
    /\ Live(t) /\ tunnels[t].getaddrinfoing
    /\ \E status \in {0, -1}, addr \in ResolvedAddrs, o \in OraclesAt(tunnels[t].stage, "getaddrinfo", "outgoing") :
         Deliver(t, socket_getaddrinfo_done_cb(tunnels[t], status, addr, o),
                 Event("getaddrinfo_done", t, "outgoing", status, o))

ConnectDone(t) ==
    /\ Live(t) /\ tunnels[t].connecting
    /\ \E status \in {0, -1}, o \in OraclesAt(tunnels[t].stage, "connect", "outgoing") :
         Deliver(t, socket_connect_done_cb(tunnels[t], status, o),
                 Event("connect_done", t, "outgoing", status, o))

TlsEstablished(t) ==
    /\ Live(t) /\ tunnels[t].tls = "connecting"
    /\ \E o \in OraclesAt(tunnels[t].stage, "tls_established", "none") :
         Deliver(t, tunnel_tls_on_connection_established(
                        [tunnels[t] EXCEPT !.tls = "established"], o),
                 Event("tls_established", t, "none", 0, o))

TlsDataReceived(t) ==
    /\ Live(t) /\ tunnels[t].tls = "established"
    /\ \E o \in OraclesAt(tunnels[t].stage, "tls_data", "none") :
         Deliver(t, tunnel_tls_on_data_received(tunnels[t], o),
                 Event("tls_data", t, "none", 0, o))

\* the transport closes: asked to by tls_client_shutdown, or on its own
TlsShuttingDown(t) ==
    /\ Live(t) /\ tunnels[t].tls \in {"connecting", "established", "shutting"}
    /\ Deliver(t, tunnel_tls_on_shutting_down(tunnels[t]),
               Event("tls_shutting_down", t, "none", 0, NoOracle))

\* stops at the first tunnel of the registry that is still running
client_shutdown_first(ts) ==
    LET running == {t \in DOMAIN ts : ts[t].registered /\ ~ts[t].terminated}
        first == CHOOSE t \in running : TRUE
    IN  [t \in DOMAIN ts |->
            IF running # {} /\ t = first
            THEN Settle(ts[t], tunnel_shutdown(ts[t]), "client_shutdown")
            ELSE ts[t]]

\* client_shutdown: tunnel_shutdown on every tunnel of the registry
client_shutdown(ts) ==
    [t \in DOMAIN ts |->
        IF ts[t].registered
        THEN Settle(ts[t], tunnel_shutdown(ts[t]), "client_shutdown")
        ELSE ts[t]]

ClientShutdown ==
    /\ Running
    /\ \E t \in Tunnels : tunnels[t].registered
    /\ tunnels' = client_shutdown(tunnels)
    /\ ev' = Event("client_shutdown", "none", "none", 0, NoOracle)
    /\ UNCHANGED <<ndebug, over_tls_enable, remote_host>>

\* the sockets of a tunnel that was shut down have closed: teardown
TunnelDying(t) ==
    /\ Running /\ tunnels[t].terminated /\ ~tunnels[t].dead
    /\ tunnels' = [tunnels EXCEPT ![t] = tunnel_dying(@)]
    /\ ev' = Event("tunnel_dying", t, "none", 0, NoOracle)
    /\ UNCHANGED <<ndebug, over_tls_enable, remote_host>>

Init ==
    /\ tunnels = [t \in Tunnels |-> NoTunnel]
    /\ ndebug \in BOOLEAN
    /\ over_tls_enable \in BOOLEAN
    \* with TLS enabled client.c never reads config->remote_host
    /\ remote_host \in IF over_tls_enable
                        THEN {[literal |-> TRUE, addr |-> V4Public]}
                        ELSE RemoteHosts
    /\ ev = NoEvent

Next ==
    \/ \E t \in Tunnels : Accept(t)
    \/ \E t \in Tunnels : IncomingRead(t)
    \/ \E t \in Tunnels : OutgoingRead(t)
    \/ \E t \in Tunnels, s \in Sockets : ReadError(t, s)
    \/ \E t \in Tunnels, s \in Sockets : WriteDone(t, s)
    \/ \E t \in Tunnels : GetaddrinfoDone(t)
    \/ \E t \in Tunnels : ConnectDone(t)
    \/ \E t \in Tunnels : TlsEstablished(t)
    \/ \E t \in Tunnels : TlsDataReceived(t)
    \/ \E t \in Tunnels : TlsShuttingDown(t)
    \/ ClientShutdown
    \/ \E t \in Tunnels : TunnelDying(t)

Spec == Init /\ [][Next]_vars

(***************************************************************************)
(* The same program serving two clients at once, for what is said of the   *)
(* registry.  One client greets with 05 01 00, the other offers passwd     *)
(* alone and is refused; both go on to ask for a CONNECT.  The build is a  *)
(* release build and the upstream is out of reach: a connect that          *)
(* completes is refused, and a TLS transport never gets established.       *)
(* Teardown is guaranteed by the event loop: once the sockets of a tunnel  *)
(* that was shut down have closed, tunnel_dying is called.                 *)
(***************************************************************************)
Registry == {"t1", "t2"}

RegistryInit ==
    /\ tunnels = [t \in Registry |-> NoTunnel]
    /\ ndebug = TRUE
    /\ over_tls_enable \in BOOLEAN
    /\ remote_host = IF over_tls_enable
                     THEN [literal |-> TRUE, addr |-> V4Public]
                     ELSE [literal |-> FALSE, addr |-> NoAddr]
    /\ ev = NoEvent

RegistryAccept(t) ==
    /\ Accept(t)
    /\ tunnels'[t].request = <<5, 1, 0, 3, 2, 104, 105, 0, 80>>
    /\ tunnels'[t].greeting = IF t = "t1" THEN <<5, 1, 0>> ELSE <<5, 1, 2>>

RegistryConnectDone(t) == ConnectDone(t) /\ ev'.result < 0

RegistryNext ==
    \/ \E t \in Registry : RegistryAccept(t)
    \/ \E t \in Registry : IncomingRead(t)
    \/ \E t \in Registry, s \in Sockets : ReadError(t, s)
    \/ \E t \in Registry, s \in Sockets : WriteDone(t, s)
    \/ \E t \in Registry : GetaddrinfoDone(t)
    \/ \E t \in Registry : RegistryConnectDone(t)
    \/ \E t \in Registry : TlsShuttingDown(t)
    \/ ClientShutdown
    \/ \E t \in Registry : TunnelDying(t)

RegistrySpec ==
    /\ RegistryInit /\ [][RegistryNext]_vars
    /\ \A t \in Registry : WF_vars(TunnelDying(t))

(***************************************************************************)
(* initial_package_create on its own: a parser that has completed a        *)
(* request for some (atyp, daddr, dport) is handed to it.  The package is  *)
(* read back by the layout of the wire format,                             *)
(*   atyp(1) || [ ipv4(4) | ipv6(16) | len(1) host(len) ] || port(2).      *)
(***************************************************************************)
\* the longest host name of the requests
MaxHost == 3

HostBytes == {0, 104, 105}

Hosts == UNION { [1..n -> HostBytes] : n \in 0..MaxHost }

Ports == {0, 80, 8080, 65535}

Destinations ==
    ({"s5_atyp_ipv4"} \X { <<127, 0, 0, 1>>, <<10, 0, 0, 1>>, <<0, 0, 0, 0>>,
                           <<255, 255, 255, 255>> })
      \cup ({"s5_atyp_ipv6"} \X { V6Public.bytes, V6Loopback.bytes })
      \cup ({"s5_atyp_host"} \X Hosts)

\* the reader of the package: <<atyp, daddr, dport>> and the bytes it used
package_parse(pkg) ==
    LET n == CASE pkg[1] = 1 -> 4
               [] pkg[1] = 4 -> 16
               [] OTHER -> pkg[2]
        at == IF pkg[1] \in {1, 4} THEN 1 ELSE 2
    IN  [atyp  |-> CASE pkg[1] = 1 -> "s5_atyp_ipv4"
                     [] pkg[1] = 4 -> "s5_atyp_ipv6"
                     [] pkg[1] = 3 -> "s5_atyp_host"
                     [] OTHER -> "none",
         daddr |-> [i \in 1..n |-> pkg[at + i]],
         dport |-> pkg[at + n + 1] * 256 + pkg[at + n + 2],
         len   |-> at + n + 2]

PackageInit ==
    /\ \E d \in Destinations, port \in Ports :
         tunnels = [t \in Tunnels |->
                      [NoTunnel EXCEPT !.born = TRUE,
                                       !.parser = [s5_init EXCEPT !.state = "s5_dead",
                                                                  !.cmd = "s5_cmd_tcp_connect",
                                                                  !.atyp = d[1],
                                                                  !.daddr = d[2],
                                                                  !.dport = port]]]
    /\ ndebug = TRUE
    /\ over_tls_enable = FALSE
    /\ remote_host = [literal |-> TRUE, addr |-> V4Public]
    /\ ev = NoEvent

PackageCreate(t) ==
    /\ tunnels[t].init_pkg_state = "null"
    /\ tunnels' = [tunnels EXCEPT ![t].init_pkg = initial_package_create(tunnels[t].parser),
                                  ![t].init_pkg_state = "live",
                                  ![t].pkg_new = Min(@ + 1, 2)]
    /\ ev' = Event("initial_package_create", t, "none", 0, NoOracle)
    /\ UNCHANGED <<ndebug, over_tls_enable, remote_host>>

PackageNext == \E t \in Tunnels : PackageCreate(t)

PackageSpec == PackageInit /\ [][PackageNext]_vars

(***************************************************************************)
(* Vocabulary of the properties.                                           *)
(***************************************************************************)
\* a greeting in the RFC 1928 layout: version 5, a count, that many methods
WellFormed(g) == Len(g) >= 2 /\ g[1] = 5 /\ Len(g) = 2 + g[2]

Offers(g, method) == WellFormed(g) /\ \E i \in 3..Len(g) : g[i] = method

\* this step is the completion of event `type` on tunnel t
Handles(t, type) == ev'.type = type /\ ev'.tunnel = t

\* this step is the read that delivers the last byte of t's greeting, and
\* nothing beyond it
GreetingDelivered(t) ==
    /\ Handles(t, "read_done") /\ ev'.socket = "incoming" /\ ev'.result > 0
    /\ tunnels[t].stage = "tunnel_stage_handshake"
    /\ tunnels[t].sent < Len(tunnels[t].greeting)
    /\ tunnels'[t].sent = Len(tunnels[t].greeting)

\* this step is the read that delivers the last byte of t's request
RequestDelivered(t) ==
    /\ Handles(t, "read_done") /\ ev'.socket = "incoming" /\ ev'.result > 0
    /\ tunnels[t].stage = "tunnel_stage_s5_request"
    /\ tunnels[t].sent < Len(Script(tunnels[t]))
    /\ tunnels'[t].sent = Len(Script(tunnels[t]))

MethodNone     == Plain(<<5, 0>>)
MethodRefused  == Plain(<<5, 255>>)
NotAllowed     == Plain(<<5, 2, 0, 1, 0, 0, 0, 0, 0, 0>>)
HostUnreach    == Plain(<<5, 4, 0, 1, 0, 0, 0, 0, 0, 0>>)
ConnRefused    == Plain(<<5, 5, 0, 1, 0, 0, 0, 0, 0, 0>>)

\* no upstream resolve, connect or TLS launch has been started
NoUpstream(c) == ~c.resolve_started /\ ~c.connect_started /\ ~c.tls_launched

(***************************************************************************)
(* C1.  For every socket of every tunnel, in every reachable state, at     *)
(* most one read and at most one write are outstanding, and no handler     *)
(* has armed a read (write) on a socket whose rdstate (wrstate) was not    *)
(* stop.                                                                   *)
(***************************************************************************)
C1_OneReadOneWrite ==
    \A t \in Tunnels, s \in Sockets :
        /\ tunnels[t].nrd[s] <= 1
        /\ tunnels[t].nwr[s] <= 1
        /\ ~tunnels[t].bad_arm

(***************************************************************************)
(* C2.  No ASSERT of do_next, or of a handler do_next calls, is violated:  *)
(* each stage is entered with its rdstate/wrstate precondition, and the    *)
(* all-four-states-are-stop assertions of the handlers hold.               *)
(***************************************************************************)
DoNextAsserts == {"rdwr", "cmd", "cipher", "feedback", "tls_socket", "unreachable"}

C2_NoAssertViolated ==
    \A t \in Tunnels : tunnels[t].failed \cap DoNextAsserts = {}

(***************************************************************************)
(* C3.  When the reads on the incoming socket have delivered, in whatever  *)
(* pieces, a greeting that offers the method none, the handler writes the  *)
(* two bytes 05 00 to the client and the stage is handshake_replied; when  *)
(* that write completes (without error) the handler arms a read on         *)
(* incoming and the stage is s5_request.                                   *)
(***************************************************************************)
C3_Step(t) ==
    LET c == tunnels[t]
        d == tunnels'[t]
    IN  /\ (GreetingDelivered(t) /\ Offers(c.greeting, 0)) =>
              /\ d.stage = "tunnel_stage_handshake_replied"
              /\ d.wire_in = <<MethodNone>>
              /\ d.wrstate["incoming"] = "busy" /\ d.nwr["incoming"] = 1
              /\ d.rdstate["incoming"] = "stop" /\ d.nrd["incoming"] = 0
        /\ (/\ c.stage = "tunnel_stage_handshake_replied"
            /\ Handles(t, "write_done") /\ ev'.result >= 0) =>
              /\ d.stage = "tunnel_stage_s5_request"
              /\ d.rdstate["incoming"] = "busy" /\ d.nrd["incoming"] = 1
              /\ d.wrstate["incoming"] = "stop"
              /\ d.wire_in = c.wire_in

C3_GreetingNoneAccepted == [][\A t \in Tunnels : C3_Step(t)]_vars

\* a greeting offering passwd and none, delivered in several reads, was
\* answered 05 00 and the request is awaited
C3_Witness ==
    \E t \in Tunnels :
        /\ tunnels[t].greeting = <<5, 2, 2, 0>>
        /\ tunnels[t].stage = "tunnel_stage_s5_request"
        /\ tunnels[t].rdstate["incoming"] = "busy"
        /\ tunnels[t].wire_in = <<MethodNone>>
        /\ tunnels[t].sent = 4
        /\ ev.type = "write_done"

(***************************************************************************)
(* C4.  When the reads have delivered a greeting that does not offer the   *)
(* method none (only passwd, say), the handler writes 05 FF and the stage  *)
(* is kill; when that write completes the tunnel is shut down; no read is  *)
(* armed and no upstream resolve, connect or TLS launch ever happens.      *)
(***************************************************************************)
C4_Step(t) ==
    LET c == tunnels[t]
        d == tunnels'[t]
    IN  /\ (GreetingDelivered(t) /\ WellFormed(c.greeting) /\ ~Offers(c.greeting, 0)) =>
              /\ d.stage = "tunnel_stage_kill"
              /\ d.wire_in = <<MethodRefused>>
              /\ d.wrstate["incoming"] = "busy" /\ d.nwr["incoming"] = 1
              /\ d.nrd["incoming"] = 0 /\ d.rdstate["incoming"] = "stop"
        /\ (/\ c.wire_in = <<MethodRefused>> /\ ~c.terminated
            /\ Handles(t, "write_done")) => d.terminated
        /\ (d.wire_in # <<>> /\ d.wire_in[1] = MethodRefused) =>
              /\ d.wire_in = <<MethodRefused>>
              /\ d.nrd = [s \in Sockets |-> 0]
              /\ \A s \in Sockets : d.rdstate[s] # "busy"
              /\ NoUpstream(d)
              /\ d.stage = "tunnel_stage_kill"

C4_GreetingRefused == [][\A t \in Tunnels : C4_Step(t)]_vars

\* a passwd-only greeting was answered 05 FF and the write's completion
\* shut the tunnel down
C4_Witness ==
    \E t \in Tunnels :
        /\ tunnels[t].greeting = <<5, 1, 2>>
        /\ tunnels[t].wire_in = <<MethodRefused>>
        /\ tunnels[t].terminated
        /\ tunnels[t].term_ev = "write_done"

(***************************************************************************)
(* C5.  In a release build, after a greeting answered 05 00, a CONNECT     *)
(* request for the loopback literal 127.0.0.1:8080 is answered with the    *)
(* ten bytes 05 02 00 01 00 00 00 00 00 00, the stage is kill, and no      *)
(* outbound connection is started.                                         *)
(***************************************************************************)
LoopbackConnect == <<5, 1, 0, 1, 127, 0, 0, 1, 31, 144>>

\* the handler of stage s5_request has seen the whole of t's request
RequestParsed(c) ==
    /\ c.wire_in # <<>> /\ c.wire_in[1] = MethodNone
    /\ c.sent = Len(Script(c))
    /\ c.stage # "tunnel_stage_s5_request"

C5_LoopbackDenied ==
    \A t \in Tunnels :
        LET c == tunnels[t]
        IN  (ndebug /\ c.request = LoopbackConnect /\ RequestParsed(c)) =>
               /\ c.wire_in = <<MethodNone, NotAllowed>>
               /\ c.stage = "tunnel_stage_kill"
               /\ NoUpstream(c)

(***************************************************************************)
(* C6.  On every path, the TLS one included, no connection to the upstream *)
(* is initiated (socket_connect on outgoing, tls_client_launch) unless     *)
(* can_access has been evaluated for the tunnel and has allowed it.        *)
(***************************************************************************)
C6_AccessBeforeConnect ==
    \A t \in Tunnels :
        /\ ~tunnels[t].connect_unchecked
        /\ (tunnels[t].connect_started \/ tunnels[t].tls_launched) =>
              tunnels[t].access = "allowed"

(***************************************************************************)
(* C7.  In stage resolve_ssr_server_host_done, when the resolution         *)
(* completes with a negative result, the handler writes the ten bytes      *)
(* 05 04 00 01 00 00 00 00 00 00 to the client and the stage is kill; the  *)
(* tunnel is shut down when that write completes, and socket_connect is    *)
(* never called.                                                           *)
(***************************************************************************)
Last(w) == w[Len(w)]

C7_Step(t) ==
    LET c == tunnels[t]
        d == tunnels'[t]
    IN  /\ (/\ c.stage = "tunnel_stage_resolve_ssr_server_host_done"
            /\ Handles(t, "getaddrinfo_done") /\ ev'.result < 0) =>
              /\ d.wire_in = Append(c.wire_in, HostUnreach)
              /\ d.stage = "tunnel_stage_kill"
              /\ d.wrstate["incoming"] = "busy" /\ d.nwr["incoming"] = 1
              /\ ~d.terminated
        /\ (/\ c.wire_in # <<>> /\ Last(c.wire_in) = HostUnreach /\ ~c.terminated
            /\ Handles(t, "write_done")) => d.terminated
        /\ (d.wire_in # <<>> /\ Last(d.wire_in) = HostUnreach) =>
              /\ d.wire_in = <<MethodNone, HostUnreach>>
              /\ d.stage = "tunnel_stage_kill"
              /\ ~d.connect_started /\ ~d.tls_launched
              /\ d.wire_out = <<>>

C7_ResolveFailure == [][\A t \in Tunnels : C7_Step(t)]_vars

\* the resolution failed, 05 04 was written and its completion shut the
\* tunnel down
C7_Witness ==
    \E t \in Tunnels :
        /\ tunnels[t].wire_in = <<MethodNone, HostUnreach>>
        /\ tunnels[t].resolve_started
        /\ tunnels[t].terminated
        /\ tunnels[t].term_ev = "write_done"

(***************************************************************************)
(* C8.  In stage connecting_ssr_server, when the connect completes with a  *)
(* result other than 0, the handler writes the ten bytes                   *)
(* 05 05 00 01 00 00 00 00 00 00 to the client, the stage is kill, nothing *)
(* is written to outgoing, and the tunnel is shut down when that write     *)
(* completes; when the connect completes with 0 (and the encryption of the *)
(* package succeeds) the encrypted clone of init_pkg is written to         *)
(* outgoing and the stage is ssr_auth_sent.                                *)
(***************************************************************************)
C8_Step(t) ==
    LET c == tunnels[t]
        d == tunnels'[t]
    IN  /\ (/\ c.stage = "tunnel_stage_connecting_ssr_server"
            /\ Handles(t, "connect_done") /\ ev'.result # 0) =>
              /\ d.wire_in = Append(c.wire_in, ConnRefused)
              /\ d.stage = "tunnel_stage_kill"
              /\ d.wrstate["incoming"] = "busy" /\ d.nwr["incoming"] = 1
              /\ d.wire_out = <<>> /\ d.nwr["outgoing"] = 0
              /\ ~d.terminated
        /\ (/\ c.wire_in # <<>> /\ Last(c.wire_in) = ConnRefused /\ ~c.terminated
            /\ Handles(t, "write_done")) => d.terminated
        /\ (d.wire_in # <<>> /\ Last(d.wire_in) = ConnRefused) =>
              /\ d.wire_out = <<>>
              /\ d.stage = "tunnel_stage_kill"
        /\ (/\ c.stage = "tunnel_stage_connecting_ssr_server"
            /\ Handles(t, "connect_done") /\ ev'.result = 0 /\ ev'.o.encrypt_ok) =>
              /\ d.wire_out = <<Encrypted(initial_package_create(d.parser))>>
              /\ d.wire_out = <<Encrypted(d.init_pkg)>>
              /\ d.wrstate["outgoing"] = "busy" /\ d.nwr["outgoing"] = 1
              /\ d.stage = "tunnel_stage_ssr_auth_sent"
              /\ d.wire_in = c.wire_in

C8_ConnectOutcome == [][\A t \in Tunnels : C8_Step(t)]_vars

\* the connect failed, 05 05 was written and its completion shut the tunnel
\* down with nothing sent upstream
C8_Witness ==
    \E t \in Tunnels :
        /\ tunnels[t].wire_in = <<MethodNone, ConnRefused>>
        /\ tunnels[t].connect_started
        /\ tunnels[t].wire_out = <<>>
        /\ tunnels[t].terminated
        /\ tunnels[t].term_ev = "write_done"

(***************************************************************************)
(* C9.  A BIND request after the method selection 05 00 shuts the tunnel   *)
(* down; nothing is written to the client beyond 05 00, and no cipher, no  *)
(* init_pkg and no upstream resolve, connect or TLS launch is created.     *)
(***************************************************************************)
BindRequest == <<5, 2, 0, 1, 1, 2, 3, 4, 0, 80>>

Untouched(c) == c.cipher_new = 0 /\ c.pkg_new = 0 /\ c.cipher = "null" /\ NoUpstream(c)

C9_Step(t) ==
    LET c == tunnels[t]
        d == tunnels'[t]
    IN  /\ (RequestDelivered(t) /\ c.request = BindRequest) =>
              /\ d.terminated
              /\ d.wire_in = <<MethodNone>>
              /\ d.nwr = [s \in Sockets |-> 0]
        /\ d.request = BindRequest =>
              /\ Untouched(d)
              /\ Len(d.wire_in) <= 1
              /\ d.wire_out = <<>> /\ d.tls_out = <<>>

C9_BindRefused == [][\A t \in Tunnels : C9_Step(t)]_vars

\* the read that completed the BIND request shut the tunnel down
C9_Witness ==
    \E t \in Tunnels :
        /\ tunnels[t].request = BindRequest
        /\ tunnels[t].sent = Len(Script(tunnels[t]))
        /\ tunnels[t].wire_in = <<MethodNone>>
        /\ tunnels[t].terminated
        /\ tunnels[t].term_ev = "read_done"
        /\ ev.result > 0

(***************************************************************************)
(* C10.  A UDP-ASSOC request causes exactly one write to the client, of    *)
(* the reply built by build_udp_assoc_package, with the stage s5_udp_assoc;*)
(* the stage machine shuts the tunnel down when that write completes and   *)
(* not before; no cipher, no init_pkg and no upstream resolve, connect or  *)
(* TLS launch is ever created.                                             *)
(***************************************************************************)
UdpAssocRequest == <<5, 3, 0, 1, 0, 0, 0, 0, 0, 0>>

C10_Step(t) ==
    LET c == tunnels[t]
        d == tunnels'[t]
    IN  /\ (RequestDelivered(t) /\ c.request = UdpAssocRequest) =>
              /\ d.wire_in = <<MethodNone, build_udp_assoc_package>>
              /\ d.stage = "tunnel_stage_s5_udp_accoc"
              /\ d.wrstate["incoming"] = "busy" /\ d.nwr["incoming"] = 1
              /\ d.nrd = [s \in Sockets |-> 0]
              /\ ~d.terminated
        /\ (c.stage = "tunnel_stage_s5_udp_accoc" /\ Handles(t, "write_done")) =>
              /\ d.terminated
              /\ d.wire_in = c.wire_in
        /\ (c.stage = "tunnel_stage_s5_udp_accoc" /\ ~c.terminated /\ d.terminated) =>
              ev'.type \in {"write_done", "client_shutdown"}
        /\ d.request = UdpAssocRequest =>
              /\ Untouched(d)
              /\ Len(d.wire_in) <= 2
              /\ (Len(d.wire_in) = 2 => d.wire_in = <<MethodNone, build_udp_assoc_package>>)
              /\ d.wire_out = <<>> /\ d.tls_out = <<>>

C10_UdpAssoc == [][\A t \in Tunnels : C10_Step(t)]_vars

\* the udp-assoc reply was written and its completion shut the tunnel down
C10_Witness ==
    \E t \in Tunnels :
        /\ tunnels[t].request = UdpAssocRequest
        /\ tunnels[t].stage = "tunnel_stage_s5_udp_accoc"
        /\ tunnels[t].wire_in = <<MethodNone, build_udp_assoc_package>>
        /\ tunnels[t].terminated
        /\ tunnels[t].term_ev = "write_done"

(***************************************************************************)
(* C11.  On the raw path of a CONNECT the events come in this order:       *)
(* 05 00 written, request parsed, upstream resolved and connected, the     *)
(* encrypted init_pkg written upstream and that write completed without    *)
(* error, then (when the cipher needs feedback) the feedback read and the  *)
(* receipt write completed, then 05 00 00 and init_pkg written to the      *)
(* client, and only on that write's completion are the reads armed on both *)
(* sockets with the stage streaming.  The success reply is never written   *)
(* before the upstream write of the package has completed without error.   *)
(***************************************************************************)
SuccessReply(c) == Plain(<<5, 0, 0>> \o c.init_pkg)

\* this step writes something to the client / to the upstream
WritesIncoming(t) == tunnels'[t].wire_in # tunnels[t].wire_in
WritesOutgoing(t) == tunnels'[t].wire_out # tunnels[t].wire_out

C11_Step(t) ==
    LET c == tunnels[t]
        d == tunnels'[t]
    IN  ~over_tls_enable =>
        \* the connect is started once 05 00 is out and the request is parsed
        /\ (d.connect_started /\ ~c.connect_started) =>
              /\ c.wire_in = <<MethodNone>>
              /\ c.stage \in {"tunnel_stage_s5_request",
                              "tunnel_stage_resolve_ssr_server_host_done"}
              /\ d.sent = Len(Script(d))
              /\ d.init_pkg_state = "live" /\ d.cipher = "live"
              /\ (c.stage = "tunnel_stage_resolve_ssr_server_host_done" =>
                    Handles(t, "getaddrinfo_done") /\ ev'.result = 0)
        \* the package goes upstream when the connect has succeeded
        /\ (WritesOutgoing(t) /\ c.wire_out = <<>>) =>
              /\ c.stage = "tunnel_stage_connecting_ssr_server"
              /\ Handles(t, "connect_done") /\ ev'.result = 0
              /\ d.wire_out = <<Encrypted(d.init_pkg)>>
              /\ d.wire_in = <<MethodNone>>
        \* the receipt goes upstream after the feedback was read
        /\ (WritesOutgoing(t) /\ c.wire_out # <<>>) =>
              /\ c.stage = "tunnel_stage_ssr_waiting_feedback"
              /\ Handles(t, "read_done") /\ ev'.socket = "outgoing" /\ ev'.result >= 0
              /\ d.wire_out = <<Encrypted(d.init_pkg), Feedback>>
              /\ d.wire_in = <<MethodNone>>
        \* the success reply follows the completed write of the package, the
        \* feedback read and the completed write of the receipt
        /\ (WritesIncoming(t) /\ Last(d.wire_in) = SuccessReply(d)) =>
              /\ d.wire_in = <<MethodNone, SuccessReply(d)>>
              /\ c.wire_out # <<>> /\ c.wire_out[1] = Encrypted(c.init_pkg)
              /\ c.nwr["outgoing"] <= 1
              /\ \/ /\ c.stage = "tunnel_stage_ssr_auth_sent"
                    /\ Handles(t, "write_done") /\ ev'.socket = "outgoing"
                    /\ ev'.result >= 0 /\ ~ev'.o.need_feedback
                    /\ Len(c.wire_out) = 1
                 \/ /\ c.stage = "tunnel_stage_ssr_waiting_feedback"
                    /\ Handles(t, "read_done") /\ ev'.socket = "outgoing"
                    /\ Len(c.wire_out) = 1
                 \/ /\ c.stage = "tunnel_stage_ssr_receipt_of_feedback_sent"
                    /\ Handles(t, "write_done") /\ ev'.socket = "outgoing"
                    /\ c.wire_out = <<Encrypted(c.init_pkg), Feedback>>
        \* the feedback is awaited only after the package's write succeeded
        /\ (d.stage = "tunnel_stage_ssr_waiting_feedback" /\ c.stage # d.stage) =>
              /\ c.stage = "tunnel_stage_ssr_auth_sent"
              /\ Handles(t, "write_done") /\ ev'.result >= 0
        \* streaming starts on the completion of the success reply's write
        /\ (d.stage = "tunnel_stage_streaming" /\ c.stage # d.stage) =>
              /\ c.stage = "tunnel_stage_auth_complition_done"
              /\ Handles(t, "write_done") /\ ev'.socket = "incoming" /\ ev'.result >= 0
              /\ c.wire_in = <<MethodNone, SuccessReply(c)>>
              /\ \A s \in Sockets : c.rdstate[s] = "stop" /\ d.rdstate[s] = "busy"
        \* no read is armed between the request and streaming but the one for
        \* the feedback
        /\ (d.stage \in {"tunnel_stage_ssr_receipt_of_feedback_sent",
                         "tunnel_stage_auth_complition_done",
                         "tunnel_stage_ssr_auth_sent",
                         "tunnel_stage_connecting_ssr_server"}) =>
              \A s \in Sockets : d.rdstate[s] # "busy"

C11_RawPathOrder == [][\A t \in Tunnels : C11_Step(t)]_vars

\* a raw CONNECT went all the way, feedback included, and streams
C11_Witness ==
    \E t \in Tunnels :
        /\ ~over_tls_enable
        /\ tunnels[t].stage = "tunnel_stage_streaming"
        /\ tunnels[t].wire_in = <<MethodNone, SuccessReply(tunnels[t])>>
        /\ tunnels[t].wire_out = <<Encrypted(tunnels[t].init_pkg), Feedback>>
        /\ tunnels[t].resolve_started /\ tunnels[t].connect_started
        /\ \A s \in Sockets : tunnels[t].rdstate[s] = "busy"
        /\ ev.type = "write_done" /\ ev.socket = "incoming"

(***************************************************************************)
(* C12.  In every stage, a read or write completion with a negative result *)
(* leads to the shutdown of the tunnel without advancing the session:      *)
(* after the handler has run the tunnel is shut down, no read or write is  *)
(* armed, and nothing was handed to the cipher or the TLS transport.  (The *)
(* DNS and connect failures, which reply first, are other completions.)    *)
(***************************************************************************)
\* the last event was a read or write completion on t with a negative result
FailedIO(t) ==
    /\ ev.tunnel = t /\ ev.type \in {"read_done", "write_done"} /\ ev.result < 0
    /\ ~tunnels[t].aborted

C12_NegativeResultShutsDown ==
    \A t \in Tunnels :
        FailedIO(t) =>
            \* shut down, or on the TLS path asked of the transport
            /\ ShuttingDown(tunnels[t])
            /\ \A s \in Sockets : tunnels[t].rdstate[s] # "busy" /\ tunnels[t].wrstate[s] # "busy"
            /\ "negative_size" \notin tunnels[t].hazards
            /\ ~tunnels[t].late_arm

(***************************************************************************)
(* C13.  Whenever an encrypt or decrypt call of the cipher fails, in any   *)
(* stage (the package after the connect, the feedback in                   *)
(* ssr_waiting_feedback, the first package of the TLS path, the extraction *)
(* while streaming), the tunnel is shut down and the session does not      *)
(* advance: the stage stays and nothing is written.                        *)
(***************************************************************************)
\* this step's handler calls the cipher on t's data and the call fails
EncryptFails(t) ==
    /\ ~ev'.o.encrypt_ok
    /\ \/ /\ tunnels[t].stage = "tunnel_stage_connecting_ssr_server"
          /\ Handles(t, "connect_done") /\ ev'.result = 0
       \/ /\ tunnels[t].stage = "tunnel_stage_tls_connecting"
          /\ Handles(t, "tls_established")
       \/ /\ tunnels[t].stage \in {"tunnel_stage_streaming", "tunnel_stage_tls_streaming"}
          /\ Handles(t, "read_done") /\ ev'.socket = "incoming" /\ ev'.result >= 0

DecryptFails(t) ==
    /\ ~ev'.o.decrypt_ok
    /\ \/ /\ tunnels[t].stage = "tunnel_stage_ssr_waiting_feedback"
          /\ Handles(t, "read_done") /\ ev'.socket = "outgoing" /\ ev'.result >= 0
       \/ /\ tunnels[t].stage = "tunnel_stage_tls_first_package"
          /\ Handles(t, "tls_data")
       \/ /\ tunnels[t].stage = "tunnel_stage_streaming"
          /\ Handles(t, "read_done") /\ ev'.socket = "outgoing" /\ ev'.result >= 0

C13_Step(t) ==
    LET c == tunnels[t]
        d == tunnels'[t]
    IN  ((EncryptFails(t) \/ DecryptFails(t)) /\ ~d.aborted) =>
            \* shut down, or on the TLS path asked of the transport
            /\ ShuttingDown(d)
            /\ d.stage = c.stage
            /\ d.wire_in = c.wire_in /\ d.wire_out = c.wire_out /\ d.tls_out = c.tls_out

C13_CipherFailureShutsDown == [][\A t \in Tunnels : C13_Step(t)]_vars

(***************************************************************************)
(* C14.  For every tunnel, init_pkg and the cipher context are each        *)
(* created at most once, and exactly once when the tunnel has processed a  *)
(* CONNECT request; each is released exactly once, and only by             *)
(* tunnel_dying, which runs at most once for a tunnel however many times   *)
(* its shutdown is requested.                                              *)
(***************************************************************************)
\* the parser of the tunnel has completed a CONNECT request (exec-cmd)
ConnectParsed(c) == c.parser.state = "s5_dead" /\ c.parser.cmd = "s5_cmd_tcp_connect"

C14_Step(t) ==
    LET c == tunnels[t]
        d == tunnels'[t]
    IN  /\ d.cipher_new <= 1 /\ d.pkg_new <= 1
        /\ d.cipher_free <= d.cipher_new /\ d.pkg_free <= d.pkg_new
        /\ d.dying <= 1
        /\ ConnectParsed(d) => (d.cipher_new = 1 /\ d.pkg_new = 1)
        \* released by teardown, and by nothing else
        /\ (\/ d.cipher_free # c.cipher_free
            \/ d.pkg_free # c.pkg_free
            \/ (d.cipher = "released" /\ c.cipher # "released")
            \/ (d.init_pkg_state = "released" /\ c.init_pkg_state # "released")) =>
              /\ Handles(t, "tunnel_dying")
              /\ c.terminated /\ ~c.dead /\ d.dead
        \* once torn down, what was created has been released
        /\ d.dead =>
              /\ d.dying = 1
              /\ d.cipher_free = d.cipher_new /\ d.pkg_free = d.pkg_new
              /\ d.cipher # "live" /\ d.init_pkg_state # "live"
        /\ ~d.dead =>
              /\ d.dying = 0 /\ d.cipher_free = 0 /\ d.pkg_free = 0

C14_CreatedAndReleasedOnce == [][\A t \in Tunnels : C14_Step(t)]_vars

\* a CONNECT tunnel whose shutdown was requested more than once has been
\* torn down once, its cipher and init_pkg released once
C14_Witness ==
    \E t \in Tunnels :
        /\ tunnels[t].dead /\ tunnels[t].dying = 1
        /\ tunnels[t].shutdowns = 2
        /\ tunnels[t].cipher_new = 1 /\ tunnels[t].cipher_free = 1
        /\ tunnels[t].pkg_new = 1 /\ tunnels[t].pkg_free = 1
        /\ tunnels[t].stage = "tunnel_stage_kill"

(***************************************************************************)
(* C15.  In every reachable state of a tunnel, init_pkg exists if and only *)
(* if the cipher context exists, and both exist if and only if the tunnel  *)
(* has parsed a CONNECT request and has not been torn down; init_pkg is    *)
(* never released before the SOCKS5 success reply has been queued.         *)
(***************************************************************************)
SuccessQueued(c) == \E i \in 1..Len(c.wire_in) : c.wire_in[i] = SuccessReply(c)

ExistTogether(c) ==
    /\ c.init_pkg_state = "live" <=> c.cipher = "live"
    /\ c.init_pkg_state = "live" <=> (ConnectParsed(c) /\ ~c.dead)

C15_Step(t) ==
    LET c == tunnels[t]
        d == tunnels'[t]
    IN  /\ ExistTogether(d)
        /\ d.init_pkg_state = "released" => d.dead
        /\ "null_init_pkg" \notin d.hazards
        /\ (WritesIncoming(t) /\ Last(d.wire_in) = SuccessReply(d)) =>
              /\ c.init_pkg_state = "live" /\ d.init_pkg_state = "live"
              /\ d.init_pkg = initial_package_create(d.parser)

Broadcast(t) == ev.type = "client_shutdown" /\ tunnels[t].registered

TornDown(t) == tunnels[t].dead /\ ~tunnels[t].registered

C16_BroadcastTearsDown ==
    \A t \in Registry :
        /\ [](Broadcast(t) => tunnels[t].terminated)
        /\ Broadcast(t) ~> TornDown(t)

\* both tunnels were shut down by one broadcast, in different stages, and
\* have been torn down: the registry is empty
C16_Witness ==
    /\ \A t \in Registry :
          /\ tunnels[t].born /\ TornDown(t)
          /\ tunnels[t].term_ev = "client_shutdown"
    /\ tunnels["t1"].stage = "tunnel_stage_connecting_ssr_server"
    /\ tunnels["t2"].stage = "tunnel_stage_kill"

(***************************************************************************)
(* C17.  For all (atyp, addr, port) with atyp ipv4, ipv6 or host, the      *)
(* init_pkg built by initial_package_create is the atyp byte, then the 4   *)
(* or 16 address bytes or a length byte and that many host bytes, then the *)
(* port in two bytes, big-endian; its length is the number of bytes        *)
(* written; and reading the package back yields the original triple.       *)
(***************************************************************************)
RoundTrip(c) ==
    LET r == package_parse(c.init_pkg)
    IN  /\ c.init_pkg[1] = atyp_byte(c.parser.atyp)
        /\ Len(c.init_pkg) = r.len
        /\ r.atyp = c.parser.atyp
        /\ r.daddr = c.parser.daddr
        /\ r.dport = c.parser.dport

C17_PackageRoundTrip ==
    \A t \in Tunnels : tunnels[t].init_pkg_state = "live" => RoundTrip(tunnels[t])

(***************************************************************************)
(* C18.  For every write issued by the stage machine, the source buffer    *)
(* handed to socket_write stays valid and unmodified from the moment the   *)
(* write is armed until its write-completion callback fires.               *)
(***************************************************************************)
C18_SourceBufferHeld ==
    \A t \in Tunnels : \A s \in Sockets :
        tunnels[t].wrstate[s] = "busy" => tunnels[t].wsrc[s] = "held"

(***************************************************************************)
(* C19.  As stated: a tunnel is a member of the registry from its          *)
(* construction until its teardown begins and never afterwards; once       *)
(* shutdown of a tunnel has started the registry no longer contains it, so *)
(* a later broadcast does not visit it.                                    *)
(***************************************************************************)
C19_AsStated ==
    \A t \in Registry : tunnels[t].terminated => ~tunnels[t].registered

(***************************************************************************)
(* C19, as the code has it.  A tunnel is in the registry from init_done_cb *)
(* until tunnel_dying has run, and never afterwards.  Between the start of *)
(* its shutdown and tunnel_dying it is still a member: a broadcast visits  *)
(* it, and the visit is one more call of tunnel_shutdown that changes      *)
(* nothing else.  A tunnel that was torn down is not visited.              *)
(***************************************************************************)
C19_Step ==
    \A t \in Registry :
        /\ tunnels[t].dead => tunnels'[t] = tunnels[t]
        /\ (ev'.type = "client_shutdown" /\ tunnels[t].terminated /\ ~tunnels[t].dead)
              => tunnels'[t] = [tunnels[t] EXCEPT !.shutdowns = Min(@ + 1, 2)]

C19_RegisteredUntilDying ==
    /\ [](\A t \in Registry : tunnels[t].registered <=> (tunnels[t].born /\ ~tunnels[t].dead))
    /\ [][C19_Step]_vars

\* t2 was shut down by its own handler, was still in the registry when the
\* broadcast came, and has since been torn down; t1 is still a member
C19_Witness ==
    /\ tunnels["t2"].term_ev # "client_shutdown"
    /\ tunnels["t2"].shutdowns = 2
    /\ TornDown("t2")
    /\ tunnels["t1"].registered /\ tunnels["t1"].terminated
    /\ ev.type = "tunnel_dying"

(***************************************************************************)
(* C20.  In stage ssr_auth_sent, after a successful write completion: if   *)
(* the cipher needs feedback exactly one read is armed on outgoing and the *)
(* stage becomes ssr_waiting_feedback, otherwise the SOCKS5 success reply  *)
(* is written to incoming and the stage becomes auth_complition_done.  In  *)
(* stage ssr_waiting_feedback, after a successful read: if decryption      *)
(* yields a feedback blob it is written to outgoing and the stage becomes  *)
(* ssr_receipt_of_feedback_sent with no write to incoming yet, otherwise   *)
(* the success reply is written to incoming directly.  On each path the    *)
(* success reply is written exactly once.  (Steps in which a debug build   *)
(* stops on a failed ASSERT are not steps of the stage machine.)           *)
(***************************************************************************)
Replies(c) == Cardinality({i \in 1..Len(c.wire_in) : c.wire_in[i] = SuccessReply(c)})

\* the step wrote the success reply to the client, and nothing else
RepliesNow(c, d) ==
    /\ d.wire_in = Append(c.wire_in, SuccessReply(c))
    /\ d.wire_out = c.wire_out
    /\ d.wrstate["incoming"] = "busy" /\ d.nwr["incoming"] = 1
    /\ d.nrd = [s \in Sockets |-> 0]
    /\ d.stage = "tunnel_stage_auth_complition_done"
    /\ ~d.terminated
    /\ Replies(c) = 0 /\ Replies(d) = 1

AuthSentDone(t) ==
    /\ tunnels[t].stage = "tunnel_stage_ssr_auth_sent"
    /\ Handles(t, "write_done") /\ ev'.socket = "outgoing" /\ ev'.result >= 0
    /\ ~tunnels'[t].aborted

FeedbackRead(t) ==
    /\ tunnels[t].stage = "tunnel_stage_ssr_waiting_feedback"
    /\ Handles(t, "read_done") /\ ev'.socket = "outgoing" /\ ev'.result >= 0
    /\ ~tunnels'[t].aborted

ReceiptDone(t) ==
    /\ tunnels[t].stage = "tunnel_stage_ssr_receipt_of_feedback_sent"
    /\ Handles(t, "write_done") /\ ev'.socket = "outgoing" /\ ev'.result >= 0
    /\ ~tunnels'[t].aborted

C20_Step(t) ==
    LET c == tunnels[t]
        d == tunnels'[t]
    IN  /\ AuthSentDone(t) =>
              IF ev'.o.need_feedback
              THEN /\ d.stage = "tunnel_stage_ssr_waiting_feedback"
                   /\ d.rdstate["outgoing"] = "busy" /\ d.nrd["outgoing"] = 1
                   /\ d.nrd["incoming"] = 0
                   /\ d.nwr = [s \in Sockets |-> 0]
                   /\ d.wire_in = c.wire_in /\ d.wire_out = c.wire_out
                   /\ ~d.terminated
              ELSE RepliesNow(c, d)
        /\ FeedbackRead(t) =>
              IF ev'.o.decrypt_ok /\ ev'.o.feedback
              THEN /\ d.stage = "tunnel_stage_ssr_receipt_of_feedback_sent"
                   /\ d.wire_out = Append(c.wire_out, Feedback)
                   /\ d.wrstate["outgoing"] = "busy" /\ d.nwr["outgoing"] = 1
                   /\ d.wire_in = c.wire_in /\ d.nwr["incoming"] = 0
                   /\ d.nrd = [s \in Sockets |-> 0]
                   /\ Replies(d) = 0
                   /\ ~d.terminated
              ELSE RepliesNow(c, d)
        /\ ReceiptDone(t) => RepliesNow(c, d)

C21_Step ==
    \A t \in Tunnels :
        /\ Handles(t, "tls_data") => tunnels[t].stage = "tunnel_stage_tls_first_package"
        /\ "tls_stage" \notin tunnels'[t].failed

C21_DataOnlyInFirstPackage == [][C21_Step]_vars

(***************************************************************************)
(* C22.  When over_tls_enable is set the outgoing socket is never used:    *)
(* for the whole life of the tunnel no resolve, connect, read or write is  *)
(* issued on outgoing and its rdstate and wrstate stay stop (until the     *)
(* sockets are closed by shutdown); after the success-reply write          *)
(* completes only a read on incoming is armed and the stage becomes        *)
(* tls_streaming; and the stages resolve_ssr_server_host_done,             *)
(* connecting_ssr_server, ssr_auth_sent, ssr_waiting_feedback,             *)
(* ssr_receipt_of_feedback_sent and streaming are never entered.           *)
(***************************************************************************)
RawStages ==
    {"tunnel_stage_resolve_ssr_server_host_done", "tunnel_stage_connecting_ssr_server",
     "tunnel_stage_ssr_auth_sent", "tunnel_stage_ssr_waiting_feedback",
     "tunnel_stage_ssr_receipt_of_feedback_sent", "tunnel_stage_streaming"}

OutgoingUnused(c) ==
    /\ ~c.resolve_started /\ ~c.connect_started
    /\ ~c.getaddrinfoing /\ ~c.connecting
    /\ c.wire_out = <<>>
    /\ c.nrd["outgoing"] = 0 /\ c.nwr["outgoing"] = 0
    /\ c.rdstate["outgoing"] = (IF c.terminated THEN "dead" ELSE "stop")
    /\ c.wrstate["outgoing"] = (IF c.terminated THEN "dead" ELSE "stop")
    /\ c.stage \notin RawStages

ReplyWritten(t) ==
    /\ tunnels[t].stage = "tunnel_stage_auth_complition_done"
    /\ Handles(t, "write_done") /\ ev'.socket = "incoming" /\ ev'.result >= 0
    /\ ~tunnels'[t].aborted

C22_Step(t) ==
    (over_tls_enable /\ ReplyWritten(t)) =>
        /\ tunnels'[t].stage = "tunnel_stage_tls_streaming"
        /\ tunnels'[t].rdstate["incoming"] = "busy" /\ tunnels'[t].nrd["incoming"] = 1
        /\ tunnels'[t].wrstate["incoming"] = "stop"
        /\ tunnels'[t].nrd["outgoing"] = 0

C22_OutgoingUnusedOverTls ==
    /\ [](over_tls_enable => \A t \in Tunnels : tunnels[t].born => OutgoingUnused(tunnels[t]))
    /\ [][\A t \in Tunnels : C22_Step(t)]_vars

\* the TLS session streams; its upstream side went through the transport
C22_Witness ==
    \E t \in Tunnels :
        /\ over_tls_enable
        /\ tunnels[t].stage = "tunnel_stage_tls_streaming"
        /\ tunnels[t].tls_stream_sent
        /\ tunnels[t].rdstate["incoming"] = "busy"
        /\ ~tunnels[t].terminated

(***************************************************************************)
(* C23.  In stages handshake and s5_request, when the parser leaves        *)
(* residual unconsumed bytes in the read the tunnel is closed (shut down)  *)
(* instead of a read being re-armed; a read is re-armed with the stage     *)
(* unchanged only when need-more is returned with no residual bytes.  The  *)
(* parser returns need-more only when it has consumed the whole read, so   *)
(* residual bytes are always those left after a complete record or an      *)
(* error.                                                                  *)
(***************************************************************************)
ParsingStages == {"tunnel_stage_handshake", "tunnel_stage_s5_request"}

\* the bytes this step's read hands to the handler
Delivered(t) ==
    SubSeq(Script(tunnels[t]), tunnels[t].sent + 1, tunnels'[t].sent)

Parses(t) ==
    /\ tunnels[t].stage \in ParsingStages
    /\ Handles(t, "read_done") /\ ev'.socket = "incoming" /\ ev'.result >= 0
    /\ ~tunnels'[t].aborted

C23_Step(t) ==
    LET c == tunnels[t]
        d == tunnels'[t]
        r == s5_parse(c.parser, Delivered(t))
        rearmed == d.rdstate["incoming"] = "busy" /\ d.stage = c.stage
    IN  Parses(t) =>
          /\ r.err = "s5_ok" => r.data = <<>>
          /\ r.data # <<>> =>
                /\ d.terminated /\ d.stage = c.stage
                /\ d.nrd = [s \in Sockets |-> 0] /\ d.nwr = [s \in Sockets |-> 0]
                /\ d.wire_in = c.wire_in
          /\ rearmed <=> (r.err = "s5_ok" /\ r.data = <<>>)
          /\ rearmed => (~d.terminated /\ d.nrd["incoming"] = 1 /\ d.wire_in = c.wire_in)

NoCaseStages == {"tunnel_stage_tls_connecting", "tunnel_stage_tls_first_package"}

\* the callbacks that enter do_next
DoNextEvents == {"read_done", "write_done", "getaddrinfo_done", "connect_done"}

\* nothing is in flight whose completion would enter do_next
Quiet(c) ==
    /\ c.nrd = [s \in Sockets |-> 0] /\ c.nwr = [s \in Sockets |-> 0]
    /\ \A s \in Sockets : c.rdstate[s] # "busy" /\ c.wrstate[s] # "busy"
    /\ ~c.getaddrinfoing /\ ~c.connecting

C24_Step(t) ==
    (ev'.tunnel = t /\ ev'.type \in DoNextEvents) =>
        tunnels[t].stage \notin NoCaseStages \cup {"tunnel_stage_handshake_auth"}

C24_NoUnreachable ==
    /\ [](\A t \in Tunnels :
            /\ tunnels[t].stage # "tunnel_stage_handshake_auth"
            /\ "unreachable" \notin tunnels[t].failed
            /\ tunnels[t].stage \in NoCaseStages => Quiet(tunnels[t]))
    /\ [][\A t \in Tunnels : C24_Step(t)]_vars

\* a tunnel waits for the first reply over TLS: do_next has no case for its
\* stage and no completion is pending
C24_Witness ==
    \E t \in Tunnels :
        /\ tunnels[t].stage = "tunnel_stage_tls_first_package"
        /\ tunnels[t].tls = "established"
        /\ tunnels[t].tls_out # <<>>
        /\ ~tunnels[t].terminated /\ ~tunnels[t].aborted
        /\ ev.type = "tls_established"

(***************************************************************************)
(* C25.  Once shutdown of a tunnel has been initiated by any handler       *)
(* (tunnel_shutdown or tls_client_shutdown), that handler invocation and   *)
(* all later ones arm no new read, write, connect or resolve on either     *)
(* socket of the tunnel and hand no data to the TLS transport; in          *)
(* particular after an encrypt failure in tls_streaming no read is         *)
(* re-armed on incoming.                                                   *)
(***************************************************************************)
C25_NothingArmedAfterShutdown ==
    \A t \in Tunnels :
        /\ ~tunnels[t].late_arm
        /\ tunnels[t].terminated => Quiet(tunnels[t])
        /\ (tunnels[t].tls_shutdown /\ ~tunnels[t].aborted)
              => tunnels[t].rdstate["incoming"] # "busy"

(***************************************************************************)
(* C26.  The stage of a tunnel only moves forward along an acyclic         *)
(* transition graph: apart from the need-more self-loops in handshake and  *)
(* s5_request no stage is re-entered after it has been left; kill,         *)
(* streaming and tls_streaming are absorbing; and streaming or             *)
(* tls_streaming is reached only by a tunnel that parsed a CONNECT         *)
(* request, passed access control where it is checked, and completed the   *)
(* success-reply write.                                                    *)
(***************************************************************************)
\* a numbering of the stages along which every transition ascends
StageRank(stage) ==
    CASE stage = "tunnel_stage_handshake" -> 1
      [] stage = "tunnel_stage_handshake_auth" -> 2
      [] stage = "tunnel_stage_handshake_replied" -> 2
      [] stage = "tunnel_stage_s5_request" -> 3
      [] stage = "tunnel_stage_s5_udp_accoc" -> 4
      [] stage = "tunnel_stage_tls_connecting" -> 4
      [] stage = "tunnel_stage_resolve_ssr_server_host_done" -> 4
      [] stage = "tunnel_stage_connecting_ssr_server" -> 5
      [] stage = "tunnel_stage_tls_first_package" -> 5
      [] stage = "tunnel_stage_ssr_auth_sent" -> 6
      [] stage = "tunnel_stage_ssr_waiting_feedback" -> 7
      [] stage = "tunnel_stage_ssr_receipt_of_feedback_sent" -> 8
      [] stage = "tunnel_stage_auth_complition_done" -> 9
      [] stage = "tunnel_stage_streaming" -> 10
      [] stage = "tunnel_stage_tls_streaming" -> 10
      [] stage = "tunnel_stage_kill" -> 11
      [] OTHER -> 0

Absorbing == {"tunnel_stage_kill", "tunnel_stage_streaming", "tunnel_stage_tls_streaming"}

StreamingStages == {"tunnel_stage_streaming", "tunnel_stage_tls_streaming"}

C26_Step(t) ==
    LET c == tunnels[t]
        d == tunnels'[t]
    IN  /\ d.stage # c.stage => StageRank(d.stage) > StageRank(c.stage)
        /\ c.stage \in Absorbing => d.stage = c.stage
        \* a handler that goes on leaves the stage as it is only while parsing
        /\ (c.stage \notin Absorbing /\ d.stage = c.stage /\ ~ShuttingDown(d) /\ ~d.aborted
              /\ ev'.tunnel = t /\ ev'.type \in DoNextEvents)
              => c.stage \in ParsingStages
        /\ (d.stage \in StreamingStages /\ c.stage \notin StreamingStages) =>
              /\ c.stage = "tunnel_stage_auth_complition_done"
              /\ Handles(t, "write_done") /\ ev'.socket = "incoming" /\ ev'.result >= 0
              /\ ConnectParsed(c)
              /\ Replies(c) = 1
              /\ (d.stage = "tunnel_stage_streaming") = ~over_tls_enable
              /\ ~over_tls_enable => c.access = "allowed"

C26_StageAscends ==
    /\ [][\A t \in Tunnels : C26_Step(t)]_vars
    /\ [](\A t \in Tunnels :
            tunnels[t].stage \in StreamingStages =>
                /\ ConnectParsed(tunnels[t])
                /\ Replies(tunnels[t]) = 1
                /\ ~over_tls_enable => tunnels[t].access = "allowed")

\* a release build has just launched the streaming of the raw path
C26_Witness ==
    \E t \in Tunnels :
        /\ ndebug /\ ~over_tls_enable
        /\ tunnels[t].stage = "tunnel_stage_streaming"
        /\ tunnels[t].access = "allowed"
        /\ tunnels[t].rdstate = [s \in Sockets |-> "busy"]
        /\ ev.type = "write_done" /\ ev.socket = "incoming" /\ ev.result = 0
        /\ ~tunnels[t].terminated

(***************************************************************************)
(* C27.  Whenever a handler dereferences or releases the cipher context or *)
(* init_pkg (cloning init_pkg after connect or TLS establishment, building *)
(* the success reply, need_feedback, feedback decrypt, tunnel_extract_data *)
(* in streaming, buffer_release of init_pkg in tunnel_dying), that object  *)
(* exists: no reachable event sequence, including the teardown of a tunnel *)
(* that never received a CONNECT request, uses an absent cipher or         *)
(* init_pkg.                                                               *)
(***************************************************************************)
AbsentUses == {"null_cipher", "null_init_pkg", "release_null_init_pkg"}

C27_ObjectsExistWhenUsed ==
    \A t \in Tunnels : tunnels[t].hazards \cap AbsentUses = {}

====
